---- MODULE Spec2Model ----
(***************************************************************************)
(* A model of the miroslava request pipeline: the URL rule registry and    *)
(* its matcher (App.add_url_rule, Miroslava.dispatch_request), the         *)
(* return-value normalisation (App.make_response, abort), the context     *)
(* variables behind current_app / request (globals.py) and the            *)
(* per-connection worker (Miroslava.handle_client).                       *)
(*                                                                         *)
(* Strings that the code inspects character by character (URL rules,      *)
(* request paths, status strings) are sequences of one-character strings. *)
(***************************************************************************)
EXTENDS Integers, Sequences, FiniteSets, TLC

VARIABLES
    url_map,          \* Map._rules: the rules, in registration order
    view_functions,   \* Scaffold.view_functions: endpoint -> view function
    last,             \* the latest dispatch_request call: request, handler behaviour, outcome
    cv_app,           \* _cv_app: per execution unit, the current AppContext or Missing
    cv_request,       \* _cv_request: per execution unit, the current RequestContext or Missing
    app_tokens,       \* AppContext._cv_tokens of every AppContext object
    req_tokens,       \* RequestContext._cv_tokens of every RequestContext object
    seen,             \* what the latest read of a proxy gave, until a context changes or the reader returns
    nest,             \* history: the contexts pushed and not yet popped, while pops come in LIFO order
    under,            \* history: the current context before the first push of nest
    deep,             \* history: since that push, 1 while no push was nested in another, else 2
    pc,               \* per worker thread, where it is in handle_client
    request,          \* handle_client's local request
    response,         \* handle_client's local response
    err,              \* the exception in flight in handle_client, if any
    sent,             \* per connection, the responses written to the client socket
    closed,           \* per connection, the calls of client.close()
    events,           \* history: per connection, what handle_client did so far, in order
    server,           \* run's listening socket and accept loop
    conn,             \* per connection, handle_client's receive loops: what is declared and buffered
    config,           \* per connection, config["DEBUG"] of the application that serves it
    console,          \* per connection, what handle_client's except clause printed
    view_rv,          \* the value a view returned, or the values assigned to a Response so far
    made              \* the Response under study: what make_response gave, or the object assigned to

routeVars == <<url_map, view_functions, last>>

ctxVars == <<cv_app, cv_request, app_tokens, req_tokens, seen, nest, under, deep>>

serverVars == <<pc, request, response, err, sent, closed, events>>

respVars == <<view_rv, made>>

runVars == <<server, conn, config, console>>

vars == <<routeVars, ctxVars, serverVars, respVars, runVars>>

(***************************************************************************)
(* Bounds                                                                  *)
(***************************************************************************)
MaxRules == 3

MaxDepth == 3

NumWorkers == 2

\* int() refuses a string of more digits than sys.get_int_max_str_digits()
\* (4300 in CPython); the limit is scaled down
IntMaxStrDigits == 2

MaxSets == 2

\* the largest Content-Length a client declares, and the most bytes one recv
\* call returns
MaxLength == 2

\* the most recv calls that return header bytes without the blank line
MaxChunks == 2

None == "None"

(***************************************************************************)
(* Characters                                                              *)
(***************************************************************************)
Digits == {"0", "1", "2", "3", "4", "5", "6", "7", "8", "9"}

Letters == {"a", "b", "c", "d", "e", "i", "m", "n", "t", "x", "y", "_"}

\* [a-zA-Z_] and [a-zA-Z0-9_] of the placeholder expression
IdentStart == Letters

IdentChar == Letters \cup Digits

DigitValue(c) ==
    CASE c = "0" -> 0 [] c = "1" -> 1 [] c = "2" -> 2 [] c = "3" -> 3
      [] c = "4" -> 4 [] c = "5" -> 5 [] c = "6" -> 6 [] c = "7" -> 7
      [] c = "8" -> 8 [] c = "9" -> 9

RECURSIVE ParseDigits(_)
ParseDigits(s) ==
    IF s = <<>> THEN 0
    ELSE 10 * ParseDigits(SubSeq(s, 1, Len(s) - 1)) + DigitValue(s[Len(s)])

\* int(s) on a string: a value, or ValueError
IntOfStr(s) ==
    IF s # <<>> /\ \A k \in 1..Len(s) : s[k] \in Digits
    THEN [ok |-> TRUE, v |-> ParseDigits(s)]
    ELSE [ok |-> FALSE, v |-> 0]

Contains(s, c) == \E k \in 1..Len(s) : s[k] = c

\* the length of the longest run of characters of `cls` in s from position j
RECURSIVE RunLen(_, _, _)
RunLen(s, j, cls) ==
    IF j <= Len(s) /\ s[j] \in cls THEN 1 + RunLen(s, j + 1, cls) ELSE 0

SetMax(S) == CHOOSE m \in S : \A k \in S : k <= m

(***************************************************************************)
(* Rule compilation: App.add_url_rule, the re.sub over the placeholder     *)
(* expression <(?:(type)?:)?(name)> and the compiled matcher               *)
(***************************************************************************)
\* the placeholder expression tried at position i of rule s (s[i] = "<"):
\* type and name are maximal identifier runs, since ':' and '>' end them;
\* type <<>> stands for a type group that did not take part (None)
PlaceholderAt(s, i) ==
    LET k1 == RunLen(s, i + 1, IdentChar)
        i1 == SubSeq(s, i + 1, i + k1)
        p == i + k1 + 1
        k2 == RunLen(s, p + 1, IdentChar)
        i2 == SubSeq(s, p + 1, p + k2)
        q == p + k2 + 1
    IN  IF /\ p <= Len(s) /\ s[p] = ":"
           /\ (k1 = 0 \/ i1[1] \in IdentStart)
           /\ k2 >= 1 /\ i2[1] \in IdentStart
           /\ q <= Len(s) /\ s[q] = ">"
        THEN [ok |-> TRUE, type |-> i1, name |-> i2, next |-> q + 1]
        ELSE IF /\ p <= Len(s) /\ s[p] = ">"
                /\ k1 >= 1 /\ i1[1] \in IdentStart
        THEN [ok |-> TRUE, type |-> <<>>, name |-> i1, next |-> p + 1]
        ELSE [ok |-> FALSE, type |-> <<>>, name |-> <<>>, next |-> i + 1]

IntType == <<"i", "n", "t">>

\* _replace: the group a placeholder turns into, and the converter it records
GroupOf(ph) ==
    [t |-> "grp", name |-> ph.name,
     cls |-> IF ph.type = IntType THEN "digit" ELSE "noslash",
     conv |-> IF ph.type = IntType THEN "int" ELSE "str"]

\* a character outside a placeholder stays in the expression unescaped
LiteralOf(c) == IF c = "." THEN [t |-> "any"] ELSE [t |-> "lit", c |-> c]

RECURSIVE CompileFrom(_, _)
CompileFrom(s, i) ==
    IF i > Len(s) THEN <<>>
    ELSE LET ph == IF s[i] = "<" THEN PlaceholderAt(s, i)
                   ELSE [ok |-> FALSE, type |-> <<>>, name |-> <<>>, next |-> i + 1]
         IN  IF ph.ok THEN <<GroupOf(ph)>> \o CompileFrom(s, ph.next)
             ELSE <<LiteralOf(s[i])>> \o CompileFrom(s, i + 1)

GroupsOf(re) == {k \in 1..Len(re) : re[k].t = "grp"}

\* re.compile refuses a group name defined twice
CompileOk(re) ==
    \A j, k \in GroupsOf(re) : re[j].name = re[k].name => j = k

ConvertersOf(re) ==
    [nm \in {re[k].name : k \in GroupsOf(re)} |->
        re[CHOOSE k \in GroupsOf(re) : re[k].name = nm].conv]

(***************************************************************************)
(* re.Pattern.match on "^" + expression + "$": greedy groups, backtracking *)
(***************************************************************************)
ClassChars(cls, s) ==
    IF cls = "digit" THEN Digits ELSE {s[k] : k \in 1..Len(s)} \ {"/"}

\* whether elements i.. of re match s[j..] to its end
RECURSIVE MatchesFrom(_, _, _, _)
MatchesFrom(re, i, s, j) ==
    IF i > Len(re) THEN j > Len(s)
    ELSE IF re[i].t = "lit"
         THEN j <= Len(s) /\ s[j] = re[i].c /\ MatchesFrom(re, i + 1, s, j + 1)
    ELSE IF re[i].t = "any"
         THEN j <= Len(s) /\ MatchesFrom(re, i + 1, s, j + 1)
    ELSE \E k \in 1..RunLen(s, j, ClassChars(re[i].cls, s)) :
             MatchesFrom(re, i + 1, s, j + k)

\* the groups of the match the engine reports: each group takes the longest
\* run that lets the rest match; <<name, text>> pairs in pattern order
RECURSIVE GroupsFrom(_, _, _, _)
GroupsFrom(re, i, s, j) ==
    IF i > Len(re) THEN <<>>
    ELSE IF re[i].t \in {"lit", "any"} THEN GroupsFrom(re, i + 1, s, j + 1)
    ELSE LET k == SetMax({n \in 1..RunLen(s, j, ClassChars(re[i].cls, s)) :
                             MatchesFrom(re, i + 1, s, j + n)})
         IN  <<[name |-> re[i].name, text |-> SubSeq(s, j, j + k - 1)]>>
                 \o GroupsFrom(re, i + 1, s, j + k)

PatternMatch(re, path) ==
    IF MatchesFrom(re, 1, path, 1)
    THEN [ok |-> TRUE, groups |-> GroupsFrom(re, 1, path, 1)]
    ELSE [ok |-> FALSE, groups |-> <<>>]

(***************************************************************************)
(* Registration: Scaffold.route and App.add_url_rule, Rule, Map.add        *)
(***************************************************************************)
Upper(m) ==
    CASE m = "get" -> "GET" [] m = "post" -> "POST" [] m = "put" -> "PUT"
      [] OTHER -> m

\* a compiled matcher, or None
NoPattern == [compiled |-> FALSE, re |-> <<>>]

\* a view function object; NoView is view_func=None
NoView == [id |-> 0, name |-> ""]

EmptyMap == [k \in {} |-> 0]

\* The state add_url_rule leaves, or the exception it raises before it
\* changes anything. call: [rule, endpoint ("" for None), view, methods
\* (a sequence; hasMethods FALSE for None), defaults]
\* an add_url_rule that puts the rule into the table before anything is
\* validated, so that a call that fails leaves its rule behind
AddUrlRuleUnchecked(map, views, call) ==
    LET re == CompileFrom(call.rule, 1)
        dynamic == Contains(call.rule, "<") /\ Contains(call.rule, ">")
        given == IF call.hasMethods THEN call.methods ELSE <<"GET">>
        rule_obj == [rule |-> call.rule,
                     defaults |-> call.defaults,
                     methods |-> {Upper(given[k]) : k \in 1..Len(given)},
                     endpoint |-> IF call.endpoint = "" THEN call.view.name ELSE call.endpoint,
                     pattern |-> IF dynamic THEN [compiled |-> TRUE, re |-> re] ELSE NoPattern,
                     converters |-> IF dynamic /\ CompileOk(re) THEN ConvertersOf(re) ELSE EmptyMap]
        bad == \/ call.endpoint = "" /\ call.view = NoView
               \/ dynamic /\ ~CompileOk(re)
               \/ call.rule = <<>> \/ call.rule[1] # "/"
    IN  [ok |-> ~bad, exc |-> IF bad THEN "ValueError" ELSE "",
         map |-> Append(map, rule_obj), views |-> views]

AddUrlRule(map, views, call) ==
    LET re == CompileFrom(call.rule, 1)
        dynamic == Contains(call.rule, "<") /\ Contains(call.rule, ">")
        endpoint == IF call.endpoint = "" THEN call.view.name ELSE call.endpoint
        given == IF call.hasMethods THEN call.methods ELSE <<"GET">>
        methods == {Upper(given[k]) : k \in 1..Len(given)}
        rule_obj == [rule |-> call.rule,
                     defaults |-> call.defaults,
                     methods |-> methods,
                     endpoint |-> endpoint,
                     pattern |-> IF dynamic THEN [compiled |-> TRUE, re |-> re] ELSE NoPattern,
                     converters |-> IF dynamic THEN ConvertersOf(re) ELSE EmptyMap]
        unchanged == [map |-> map, views |-> views]
    IN  IF call.endpoint = "" /\ call.view = NoView
        THEN [ok |-> FALSE, exc |-> "AttributeError"] @@ unchanged
        ELSE IF dynamic /\ ~CompileOk(re)
        THEN [ok |-> FALSE, exc |-> "re.error"] @@ unchanged
        ELSE IF call.rule = <<>> \/ call.rule[1] # "/"
        THEN [ok |-> FALSE, exc |-> "ValueError"] @@ unchanged
        ELSE [ok |-> TRUE, exc |-> "",
              map |-> Append(map, rule_obj),
              views |-> IF call.view # NoView
                        THEN [e \in DOMAIN views \cup {endpoint} |->
                                 IF e = endpoint THEN call.view ELSE views[e]]
                        ELSE views]

(***************************************************************************)
(* Response and its status: wrappers.Response.__init__, _clean_status      *)
(***************************************************************************)
\* the members of http.HTTPStatus
HTTPStatusValues ==
    (100..103) \cup (200..208) \cup {226} \cup (300..305) \cup {307, 308}
        \cup (400..418) \cup (421..426) \cup {428, 429, 431, 451}
        \cup (500..508) \cup {510, 511}

\* the keys of HTTP_STATUS_CODES
HTTP_STATUS_CODES ==
    (100..103) \cup (200..208) \cup {226} \cup (300..308)
        \cup (400..418) \cup (421..426) \cup {428, 429, 431, 449, 451}
        \cup (500..508) \cup {510, 511}

\* Values a handler may hand over where a status or headers are expected
NoneV == [t |-> "none"]

IntV(n) == [t |-> "int", v |-> n]

StrV(chars) == [t |-> "str", s |-> chars]

EnumV(n) == [t |-> "enum", v |-> n]

MapV(h) == [t |-> "map", h |-> h]

\* a list of (key, value) pairs, given as the mapping it spells out
PairsV(h) == [t |-> "pairs", h |-> h]

\* a value that is no status, no mapping and not iterable
FloatV == [t |-> "float"]

\* Python truthiness of such a value
Truthy(x) ==
    CASE x.t = "none" -> FALSE
      [] x.t = "int" -> x.v # 0
      [] x.t = "str" -> x.s # <<>>
      [] x.t \in {"map", "pairs"} -> DOMAIN x.h # {}
      [] OTHER -> TRUE

\* value.split(" ", 1)[0]
RECURSIVE FirstWord(_)
FirstWord(s) ==
    IF s = <<>> \/ s[1] = " " THEN <<>> ELSE <<s[1]>> \o FirstWord(Tail(s))

\* HTTPStatus(code).phrase, as the case of its letters: "OK" is the one
\* phrase without a lower-case letter
PhraseOf(code) == IF code = 200 THEN "OK" ELSE "Phrase"

\* HTTP_STATUS_CODES[code].upper()
UpperPhraseOf(code) == IF code = 200 THEN "OK" ELSE "PHRASE"

\* _clean_status: the status text (code and the kind of phrase after it) and
\* the status code, or the exception raised
CleanStatus(value) ==
    CASE value.t = "enum" ->
            [ok |-> TRUE, exc |-> "", code |-> value.v, phrase |-> PhraseOf(value.v)]
      [] value.t = "int" ->
            [ok |-> TRUE, exc |-> "", code |-> value.v,
             phrase |-> IF value.v \in HTTPStatusValues THEN PhraseOf(value.v) ELSE ""]
      [] value.t = "str" ->
            LET n == IntOfStr(FirstWord(value.s))
            IN  IF ~n.ok
                THEN [ok |-> FALSE, exc |-> "ValueError", code |-> 0, phrase |-> ""]
                ELSE IF n.v \notin HTTP_STATUS_CODES
                THEN [ok |-> FALSE, exc |-> "KeyError", code |-> 0, phrase |-> ""]
                ELSE [ok |-> TRUE, exc |-> "", code |-> n.v, phrase |-> UpperPhraseOf(n.v)]
      [] OTHER -> [ok |-> FALSE, exc |-> "TypeError", code |-> 0, phrase |-> ""]

default_status == 200

TextHtml == "text/html; charset=utf-8"

Json == "application/json"

NoResponse == [status_code |-> 0, phrase |-> "", headers |-> EmptyMap, data |-> ""]

Raised(e) == [ok |-> FALSE, exc |-> e, resp |-> NoResponse]

\* Response(data, status=status, mimetype=mimetype); mimetype "" is None
NewResponse(data, status, mimetype) ==
    LET cs == CleanStatus(IF status.t = "none" THEN IntV(default_status) ELSE status)
        ctype == IF mimetype = "" THEN TextHtml ELSE mimetype
    IN  IF ~cs.ok THEN Raised(cs.exc)
        ELSE [ok |-> TRUE, exc |-> "",
              resp |-> [status_code |-> cs.code, phrase |-> cs.phrase,
                        headers |-> [k \in {"content-type"} |-> ctype],
                        data |-> data]]

HeaderLower(k) ==
    CASE k = "X-Test" -> "x-test" [] k = "Content-Type" -> "content-type"
      [] OTHER -> k

\* response.headers[key] = value for every pair of a header mapping
MergeHeaders(resp, h) ==
    LET keys == {HeaderLower(k) : k \in DOMAIN h}
    IN  [resp EXCEPT !.headers =
            [k \in DOMAIN resp.headers \cup keys |->
                IF k \in keys
                THEN h[CHOOSE o \in DOMAIN h : HeaderLower(o) = k]
                ELSE resp.headers[k]]]

(***************************************************************************)
(* Return-value normalisation and abort: App.make_response, utils.abort    *)
(***************************************************************************)
\* A view's return value: n = 0 for a value that is no tuple, else the
\* tuple's length; body.t is the type of the body
StatusTypes == {"int", "str", "enum"}

BodyData(body) ==
    CASE body.t \in {"str", "bytes"} -> body.data
      [] body.t \in {"dict", "list"} -> "json"
      [] OTHER -> "str(body)"

MakeResponse(rv) ==
    LET status == IF rv.n = 3 \/ (rv.n = 2 /\ rv.second.t \in StatusTypes)
                  THEN rv.second ELSE NoneV
        headers == IF rv.n = 3 THEN rv.third
                   ELSE IF rv.n = 2 /\ rv.second.t \notin StatusTypes
                   THEN rv.second ELSE NoneV
        statusOr200 == IF Truthy(status) THEN status ELSE IntV(200)
        base ==
            CASE rv.body.t = "resp" ->
                    IF status.t # "none" THEN Raised("AttributeError")
                    ELSE [ok |-> TRUE, exc |-> "", resp |-> rv.body.r]
              [] rv.body.t \in {"dict", "list"} ->
                    IF status.t # "none" THEN Raised("AttributeError")
                    ELSE NewResponse(BodyData(rv.body), NoneV, Json)
              [] OTHER -> NewResponse(BodyData(rv.body), statusOr200, "")
    IN  IF rv.n \notin {0, 2, 3} THEN Raised("TypeError")
        ELSE IF ~base.ok THEN base
        ELSE IF ~Truthy(headers) THEN base
        ELSE IF headers.t \notin {"map", "pairs"} THEN Raised("TypeError")
        ELSE [base EXCEPT !.resp = MergeHeaders(base.resp, headers.h)]

Plain(body) == [n |-> 0, body |-> body, second |-> NoneV, third |-> NoneV]

Pair(body, second) == [n |-> 2, body |-> body, second |-> second, third |-> NoneV]

Triple(body, second, third) == [n |-> 3, body |-> body, second |-> second, third |-> third]

StrBody(d) == [t |-> "str", data |-> d]

DictBody == [t |-> "dict"]

\* make_response has not been called
NotMade == [ok |-> FALSE, exc |-> "not called", resp |-> NoResponse]

\* abort(status): the response the HTTPExceptionError carries, or the
\* exception abort itself raises; app_bound: current_app resolves
Abort(status, app_bound) ==
    LET n == CASE status.t \in {"int", "enum"} -> [ok |-> TRUE, v |-> status.v]
               [] status.t = "str" -> IntOfStr(status.s)
               [] OTHER -> [ok |-> FALSE, v |-> 0]
    IN  IF ~n.ok THEN Raised("ValueError")
        ELSE IF n.v \notin HTTPStatusValues THEN Raised("ValueError")
        ELSE IF ~app_bound THEN Raised("RuntimeError")
        ELSE MakeResponse(Pair(StrBody("phrase"), IntV(n.v)))

\* What calling the view does. beh: [k |-> "return", rv], [k |-> "abort",
\* status] or [k |-> "raise"]
CallView(beh, app_bound) ==
    CASE beh.k = "return" -> [k |-> "returned", rv |-> beh.rv]
      [] beh.k = "abort" ->
            LET a == Abort(beh.status, app_bound)
            IN  IF a.ok THEN [k |-> "aborted", resp |-> a.resp]
                ELSE [k |-> "raised", exc |-> a.exc]
      [] OTHER -> [k |-> "raised", exc |-> "Exception"]

(***************************************************************************)
(* Miroslava.dispatch_request                                              *)
(***************************************************************************)
\* "." in request.path and not request.path.endswith("/")
IsStaticPath(path) ==
    Contains(path, ".") /\ ~(path # <<>> /\ path[Len(path)] = "/")

\* a dispatcher that passes over the rules that do not allow the method
RuleMatchesAndAllows(rule, req) ==
    /\ req.method \in rule.methods
    /\ IF rule.pattern.compiled
       THEN PatternMatch(rule.pattern.re, req.path).ok
       ELSE req.path = rule.rule

\* the path test of either pass: equality with the rule string for a rule
\* without a matcher, rule.pattern.match otherwise
RuleMatches(rule, req) ==
    IF rule.pattern.compiled
    THEN PatternMatch(rule.pattern.re, req.path).ok
    ELSE req.path = rule.rule

\* a loop that lets a later registration override an earlier one
LastOf(hits) == CHOOSE i \in hits : \A k \in hits : i >= k

\* a for loop over url_map stops at the first rule it resolves with
FirstOf(hits) == CHOOSE i \in hits : \A k \in hits : i <= k

\* The rule the two loops resolve the request with, 0 when both run out:
\* every rule without a matcher is tried before any rule with one
ResolvingRule(map, req) ==
    LET exact == {i \in 1..Len(map) :
                     ~map[i].pattern.compiled /\ RuleMatches(map[i], req)}
        dynamic == {i \in 1..Len(map) :
                       map[i].pattern.compiled /\ RuleMatches(map[i], req)}
    IN  IF exact # {} THEN FirstOf(exact)
        ELSE IF dynamic # {} THEN FirstOf(dynamic)
        ELSE 0

\* a converter table that hands every captured text on as it is
ConvertAsText(rule, g) == [ok |-> TRUE, val |-> StrV(g.text)]

\* rule.converters.get(key, str)(value): int raises ValueError on a text
\* that is no number or has too many digits, str never raises
Convert(rule, g) ==
    IF g.name \in DOMAIN rule.converters /\ rule.converters[g.name] = "int"
    THEN LET n == IntOfStr(g.text)
         IN  [ok |-> n.ok /\ Len(g.text) <= IntMaxStrDigits, val |-> IntV(n.v)]
    ELSE [ok |-> TRUE, val |-> StrV(g.text)]

\* keyword arguments in which a default wins over the captured value of the
\* same name
KwargsDefaultsWin(rule, groups) ==
    LET names == {groups[k].name : k \in 1..Len(groups)}
        conv(nm) == Convert(rule, groups[CHOOSE k \in 1..Len(groups) : groups[k].name = nm])
    IN  [ok |-> \A nm \in names : conv(nm).ok,
         kw |-> [nm \in DOMAIN rule.defaults \cup names |->
                    IF nm \in DOMAIN rule.defaults THEN rule.defaults[nm] ELSE conv(nm).val]]

\* kwargs = dict(rule.defaults), then every captured group converted and
\* stored under its name
Kwargs(rule, groups) ==
    LET names == {groups[k].name : k \in 1..Len(groups)}
        conv(nm) == Convert(rule, groups[CHOOSE k \in 1..Len(groups) : groups[k].name = nm])
    IN  [ok |-> \A nm \in names : conv(nm).ok,
         kw |-> [nm \in DOMAIN rule.defaults \cup names |->
                    IF nm \in names THEN conv(nm).val ELSE rule.defaults[nm]]]

Outcome(kind, via, rule, resp, exc, calls, normalized) ==
    [kind |-> kind, via |-> via, rule |-> rule, resp |-> resp, exc |-> exc,
     calls |-> calls, normalized |-> normalized]

ErrorResponse(text, code) == NewResponse(text, IntV(code), "").resp

\* a call of the view outside any try block: the abort signal propagates
InvokeNoCatch(i, view, kwargs, beh, app_bound) ==
    LET r == CallView(beh, app_bound)
        calls == <<[view |-> view, kwargs |-> kwargs]>>
        m == MakeResponse(r.rv)
    IN  CASE r.k = "aborted" ->
                Outcome("raise", "view", i, NoResponse, "HTTPExceptionError", calls, FALSE)
          [] r.k = "raised" ->
                Outcome("raise", "view", i, NoResponse, r.exc, calls, FALSE)
          [] OTHER ->
                IF m.ok
                THEN Outcome("response", "view", i, m.resp, "", calls, TRUE)
                ELSE Outcome("raise", "make_response", i, NoResponse, m.exc, calls, TRUE)

\* a dispatcher that calls the view again when it aborted
InvokeAgainOnAbort(i, view, kwargs, beh, app_bound) ==
    LET r == CallView(beh, app_bound)
        call == [view |-> view, kwargs |-> kwargs]
        m == MakeResponse(r.rv)
    IN  CASE r.k = "aborted" ->
                Outcome("response", "abort", i, r.resp, "", <<call, call>>, FALSE)
          [] r.k = "raised" ->
                Outcome("raise", "view", i, NoResponse, r.exc, <<call>>, FALSE)
          [] OTHER ->
                IF m.ok
                THEN Outcome("response", "view", i, m.resp, "", <<call>>, TRUE)
                ELSE Outcome("raise", "make_response", i, NoResponse, m.exc, <<call>>, TRUE)

\* view_func(**kwargs) in its try block, and make_response on what it returns
Invoke(i, view, kwargs, beh, app_bound) ==
    LET r == CallView(beh, app_bound)
        calls == <<[view |-> view, kwargs |-> kwargs]>>
        m == MakeResponse(r.rv)
    IN  CASE r.k = "aborted" ->
                Outcome("response", "abort", i, r.resp, "", calls, FALSE)
          [] r.k = "raised" ->
                Outcome("raise", "view", i, NoResponse, r.exc, calls, FALSE)
          [] OTHER ->
                IF m.ok
                THEN Outcome("response", "view", i, m.resp, "", calls, TRUE)
                ELSE Outcome("raise", "make_response", i, NoResponse, m.exc, calls, TRUE)

\* a conversion loop without its try block: the converter's exception
\* leaves dispatch_request
ConverterFailedRaises(i) ==
    Outcome("raise", "converter", i, NoResponse, "ValueError", <<>>, FALSE)

\* except Exception: return self.response_class("Not Found", status=404)
ConverterFailed(i) ==
    Outcome("response", "404", i, ErrorResponse("Not Found", 404), "", <<>>, FALSE)

\* the body of either loop once rule i matched the path
Resolve(map, views, i, req, beh, app_bound) ==
    LET rule == map[i]
        groups == IF rule.pattern.compiled
                  THEN PatternMatch(rule.pattern.re, req.path).groups ELSE <<>>
        kwargs == Kwargs(rule, groups)
    IN  IF req.method \notin rule.methods
        THEN Outcome("response", "405", i, ErrorResponse("Method Not Allowed", 405),
                     "", <<>>, FALSE)
        ELSE IF rule.endpoint \notin DOMAIN views
        THEN Outcome("raise", "lookup", i, NoResponse, "KeyError", <<>>, FALSE)
        ELSE IF ~kwargs.ok
        THEN ConverterFailed(i)
        ELSE Invoke(i, views[rule.endpoint], kwargs.kw, beh, app_bound)

\* a dispatcher that fills the rule's own dict: kwargs = rule.defaults
DefaultsShared(rule, kwargs) == kwargs

\* rule.defaults once the view was called with kwargs: dict(rule.defaults)
\* is a new dict, and the captured values are stored in that one
DefaultsAfter(rule, kwargs) == rule.defaults

\* url_map when dispatch_request has ended with the outcome out
MapAfter(map, out) ==
    IF out.rule = 0 \/ out.calls = <<>> THEN map
    ELSE [map EXCEPT ![out.rule].defaults =
                         DefaultsAfter(map[out.rule], out.calls[1].kwargs)]

\* send_static_file: the file's bytes, or 404 when there is no such file
SendStaticFile(found) ==
    IF found
    THEN NewResponse("file", NoneV, "application/octet-stream").resp
    ELSE ErrorResponse("Not Found", 404)

\* a dispatcher that looks at the rules first and falls back to the static
\* file only when no rule resolves the request
DispatchRoutesFirst(map, views, req, beh, env) ==
    LET i == ResolvingRule(map, req)
    IN  IF i # 0
        THEN Resolve(map, views, i, req, beh, env.app_bound)
        ELSE IF IsStaticPath(req.path)
        THEN Outcome("response", "static", 0, SendStaticFile(env.file), "", <<>>, FALSE)
        ELSE Outcome("response", "404", 0, ErrorResponse("Not Found", 404),
                     "", <<>>, FALSE)

\* req: [path, method]; beh: what the view does if it is called; env: what
\* lies outside the dispatcher ([file: the static file exists, app_bound])
DispatchRequest(map, views, req, beh, env) ==
    LET i == ResolvingRule(map, req)
    IN  IF IsStaticPath(req.path)
        THEN Outcome("response", "static", 0, SendStaticFile(env.file), "", <<>>, FALSE)
        ELSE IF i # 0
        THEN Resolve(map, views, i, req, beh, env.app_bound)
        ELSE Outcome("response", "404", 0, ErrorResponse("Not Found", 404),
                     "", <<>>, FALSE)

(***************************************************************************)
(* Context variables and contexts: contextvars.ContextVar as globals.py    *)
(* uses it, AppContext / RequestContext push and pop, LocalProxy          *)
(***************************************************************************)
\* a context object: the k-th one created by execution unit `unit`
Ctx(u, k) == [unit |-> u, k |-> k]

\* no value set in the unit's Context
Missing == Ctx(0, 0)

\* a variable shared by all units, as a module global would be
CvSetShared(cv, u, value) == [v \in DOMAIN cv |-> value]

\* ContextVar.set: every thread (task) has a Context of its own, so the
\* value changes for the calling unit alone; the token keeps the old value
CvSet(cv, u, value) == [cv EXCEPT ![u] = value]

TokenOf(cv, u) == [old |-> cv[u]]

\* ContextVar.reset(token)
CvReset(cv, u, token) == [cv EXCEPT ![u] = token.old]

\* push: self._cv_tokens.append(cv.set(self))
PushCtx(cv, tokens, u, c) ==
    [cv |-> CvSet(cv, u, c),
     tokens |-> [tokens EXCEPT ![c] = Append(@, TokenOf(cv, u))]]

\* a pop that takes the oldest token of the context, not the newest
PopCtxOldest(cv, tokens, u, c) ==
    IF tokens[c] # <<>>
    THEN [cv |-> CvReset(cv, u, tokens[c][1]),
          tokens |-> [tokens EXCEPT ![c] = SubSeq(@, 2, Len(@))]]
    ELSE [cv |-> cv, tokens |-> tokens]

\* pop: if self._cv_tokens: cv.reset(self._cv_tokens.pop())
PopCtx(cv, tokens, u, c) ==
    IF tokens[c] # <<>>
    THEN [cv |-> CvReset(cv, u, tokens[c][Len(tokens[c])]),
          tokens |-> [tokens EXCEPT ![c] = SubSeq(@, 1, Len(@) - 1)]]
    ELSE [cv |-> cv, tokens |-> tokens]

\* what a call of c.pop() gives its caller: pop has no return statement and
\* skips the reset when the context holds no token
PopOutcome(tokens, c) ==
    [raised |-> FALSE, value |-> None, removed |-> tokens[c] # <<>>]

\* the proxies: the context variable each reads and the attribute it takes
Proxies ==
    { [name |-> "current_app", kind |-> "app", attr |-> "app"],
      [name |-> "g", kind |-> "app", attr |-> "g"],
      [name |-> "request", kind |-> "request", attr |-> "request"],
      [name |-> "session", kind |-> "request", attr |-> "session"] }

UnboundMessage(kind) == IF kind = "app" THEN "_no_app_msg" ELSE "_no_req_msg"

\* LocalProxy._get_current_object: local.get(), RuntimeError(unbound_message)
\* on LookupError, else the attribute of the context found
GetCurrentObject(cv, u, proxy) ==
    IF cv[u] = Missing
    THEN [ok |-> FALSE, exc |-> "RuntimeError", msg |-> UnboundMessage(proxy.kind),
          ctx |-> Missing, attr |-> ""]
    ELSE [ok |-> TRUE, exc |-> "", msg |-> "", ctx |-> cv[u], attr |-> proxy.attr]

(***************************************************************************)
(* The routing specification: registrations at start-up, then requests     *)
(***************************************************************************)
RuleStrings ==
    { <<"/", "a">>,
      <<"/", "1">>,
      <<"/", "<", "x", ">">>,
      <<"/", "<", "i", "n", "t", ":", "n", ">">> }

\* a rule with angle brackets and no placeholder in it: a name cannot
\* start with a digit
BracketRule == <<"/", "<", "1", ">">>

ViewF == [id |-> 1, name |-> "f"]

ViewG == [id |-> 2, name |-> "g"]

\* @app.route(rule) and @app.route(rule, methods=["post"]) on f,
\* @app.route(rule) on g, @app.route(rule, endpoint="f") on g, and
\* add_url_rule(rule, endpoint="e") without a view function
RegistrationCalls ==
    [rule : RuleStrings, endpoint : {""}, view : {ViewF},
     hasMethods : {FALSE}, methods : {<<>>}, defaults : {EmptyMap}]
    \cup
    [rule : RuleStrings, endpoint : {""}, view : {ViewF},
     hasMethods : {TRUE}, methods : {<<"post">>}, defaults : {EmptyMap}]
    \cup
    [rule : {BracketRule}, endpoint : {""}, view : {ViewF},
     hasMethods : {FALSE}, methods : {<<>>}, defaults : {EmptyMap}]
    \cup
    [rule : {<<"/", "a">>, <<"/", "<", "x", ">">>}, endpoint : {""}, view : {ViewG},
     hasMethods : {FALSE}, methods : {<<>>}, defaults : {EmptyMap}]
    \cup
    [rule : {<<"/", "<", "x", ">">>}, endpoint : {"f"}, view : {ViewG},
     hasMethods : {FALSE}, methods : {<<>>}, defaults : {EmptyMap}]
    \cup
    [rule : {<<"/", "a">>}, endpoint : {"e"}, view : {NoView},
     hasMethods : {FALSE}, methods : {<<>>}, defaults : {EmptyMap}]

RequestMethods == {"GET", "POST"}

RoutedPaths == { <<"/", "a">>, <<"/", "1">>, <<"/", "b">>, BracketRule }

StaticPaths == { <<"/", "a", ".", "b">> }

ViewBehaviours ==
    { [k |-> "return", rv |-> Plain(StrBody("text"))],
      [k |-> "return", rv |-> Pair(DictBody, IntV(201))],
      [k |-> "abort", status |-> IntV(418)],
      [k |-> "raise"] }

\* The requests tried: what the view would do matters on routed paths,
\* whether the file exists on static ones
DispatchInputs ==
    [req : [path : RoutedPaths, method : RequestMethods],
     beh : ViewBehaviours, file : {FALSE}]
    \cup
    [req : [path : StaticPaths, method : RequestMethods],
     beh : {[k |-> "raise"]}, file : BOOLEAN]

RouteStart ==
    /\ url_map = <<>>
    /\ view_functions = EmptyMap
    /\ last = <<>>

\* no execution unit exists
CtxIdle ==
    /\ cv_app = <<>>
    /\ cv_request = <<>>
    /\ app_tokens = <<>>
    /\ req_tokens = <<>>
    /\ seen = <<>>
    /\ nest = <<>>
    /\ under = <<>>
    /\ deep = <<>>

\* no connection was accepted
ServerIdle ==
    /\ pc = <<>>
    /\ request = <<>>
    /\ response = <<>>
    /\ err = <<>>
    /\ sent = <<>>
    /\ closed = <<>>
    /\ events = <<>>
    /\ server = <<>>
    /\ conn = <<>>
    /\ config = <<>>
    /\ console = <<>>

\* make_response is not under study
RespIdle ==
    /\ view_rv = <<>>
    /\ made = <<>>

RouteInit == RouteStart /\ CtxIdle /\ ServerIdle /\ RespIdle

\* one call of add_url_rule that returns
Register(call) ==
    LET r == AddUrlRule(url_map, view_functions, call)
    IN  /\ last = <<>>
        /\ Len(url_map) < MaxRules
        /\ r.ok
        /\ url_map' = r.map
        /\ view_functions' = r.views
        /\ UNCHANGED <<last, ctxVars, serverVars, respVars, runVars>>

\* one call of dispatch_request, made as handle_client makes it (contexts
\* pushed); last holds the call and what it gave until the caller takes it
Dispatch(in) ==
    LET env == [file |-> in.file, app_bound |-> TRUE]
    IN  /\ last = <<>>
        /\ \E out \in { DispatchRequest(url_map, view_functions, in.req, in.beh, env) } :
               /\ last' = <<[req |-> in.req, beh |-> in.beh, env |-> env, out |-> out]>>
               /\ url_map' = MapAfter(url_map, out)
        /\ UNCHANGED <<view_functions, ctxVars, serverVars, respVars, runVars>>

\* the caller has taken the result
Return ==
    /\ last # <<>>
    /\ last' = <<>>
    /\ UNCHANGED <<url_map, view_functions, ctxVars, serverVars, respVars, runVars>>

RouteNext ==
    \/ \E call \in RegistrationCalls : Register(call)
    \/ \E in \in DispatchInputs : Dispatch(in)
    \/ Return

SpecRoute == RouteInit /\ [][RouteNext]_vars

(***************************************************************************)
(* The item specification: an application with typed and untyped item      *)
(* routes, and requests for items                                          *)
(***************************************************************************)
ItemPrefix == <<"/", "i", "t", "e", "m", "/">>

\* /item/<int:id>
ItemRule == ItemPrefix \o <<"<", "i", "n", "t", ":", "i", "d", ">">>

\* /item/<id>
ItemTextRule == ItemPrefix \o <<"<", "i", "d", ">">>

IdName == <<"i", "d">>

\* /item/1.2
ItemFile == ItemPrefix \o <<"1", ".", "2">>

\* /item/<1>. : angle brackets and a '.', and no placeholder
ItemDotRule == ItemPrefix \o <<"<", "1", ">", ".">>

\* @app.route("/item/<int:id>") on f, the same for POST only,
\* @app.route("/item/<id>") on g, and
\* add_url_rule("/item/<int:id>", endpoint="e") without a view function,
\* @app.route("/item/1.2") on g and @app.route("/item/<1>.") on g
ItemCalls ==
    { [rule |-> ItemRule, endpoint |-> "", view |-> ViewF,
       hasMethods |-> FALSE, methods |-> <<>>, defaults |-> EmptyMap],
      [rule |-> ItemRule, endpoint |-> "", view |-> ViewF,
       hasMethods |-> TRUE, methods |-> <<"post">>, defaults |-> EmptyMap],
      [rule |-> ItemTextRule, endpoint |-> "", view |-> ViewG,
       hasMethods |-> FALSE, methods |-> <<>>, defaults |-> EmptyMap],
      [rule |-> ItemRule, endpoint |-> "e", view |-> NoView,
       hasMethods |-> FALSE, methods |-> <<>>, defaults |-> EmptyMap],
      [rule |-> ItemFile, endpoint |-> "", view |-> ViewG,
       hasMethods |-> FALSE, methods |-> <<>>, defaults |-> EmptyMap],
      [rule |-> ItemDotRule, endpoint |-> "", view |-> ViewG,
       hasMethods |-> FALSE, methods |-> <<>>, defaults |-> EmptyMap] }

\* /item/12, /item/abc, /item/7, /item/ and numbers of three and four digits
ItemPaths ==
    { ItemPrefix \o <<"1", "2">>,
      ItemPrefix \o <<"a", "b", "c">>,
      ItemPrefix \o <<"7">>,
      ItemPrefix,
      ItemPrefix \o <<"1", "2", "3">>,
      ItemPrefix \o <<"1", "2", "3", "4">> }

\* /item/1.2 names a file, /item/1.2/ and /item/<1>x do not
ItemInputs ==
    [req : [path : ItemPaths \cup {ItemFile \o <<"/">>, ItemPrefix \o <<"<", "1", ">", "x">>},
            method : RequestMethods],
     beh : ViewBehaviours, file : {FALSE}]
    \cup
    [req : [path : {ItemFile}, method : RequestMethods],
     beh : ViewBehaviours, file : BOOLEAN]

ItemNext ==
    \/ \E call \in ItemCalls : Register(call)
    \/ \E in \in ItemInputs : Dispatch(in)
    \/ Return

SpecItem == RouteInit /\ [][ItemNext]_vars

(***************************************************************************)
(* The context specification: execution units (threads, tasks) that push,  *)
(* pop and read contexts in any order the API allows                       *)
(***************************************************************************)
\* the execution unit whose contexts are followed
Units == {1}

Kinds == {"app", "request"}

\* the context objects a unit creates, per kind: two, so that pops can come
\* in another order than the pushes
CtxsOf(u) == { Ctx(u, 1), Ctx(u, 2) }

AllCtxs == UNION { CtxsOf(u) : u \in Units }

\* no read since the contexts last changed
NotRead ==
    [unit |-> 0, proxy |-> "", empty |-> FALSE, top |-> Missing,
     res |-> [ok |-> FALSE, exc |-> "", msg |-> "", ctx |-> Missing, attr |-> ""]]

CtxStart ==
    /\ cv_app = [u \in Units |-> Missing]
    /\ cv_request = [u \in Units |-> Missing]
    /\ app_tokens = [c \in AllCtxs |-> <<>>]
    /\ req_tokens = [c \in AllCtxs |-> <<>>]
    /\ seen = NotRead
    /\ nest = [k \in Kinds |-> [u \in Units |-> <<>>]]
    /\ under = [k \in Kinds |-> [u \in Units |-> Missing]]
    /\ deep = [k \in Kinds |-> [u \in Units |-> 0]]

RouteIdle ==
    /\ url_map = <<>>
    /\ view_functions = EmptyMap
    /\ last = <<>>

CtxInit == CtxStart /\ RouteIdle /\ ServerIdle /\ RespIdle

CvOf(kind) == IF kind = "app" THEN cv_app ELSE cv_request

TokensOf(kind) == IF kind = "app" THEN app_tokens ELSE req_tokens

\* the pushes of unit u's contexts of a kind that no pop has undone
Outstanding(kind, u) ==
    { <<c, i>> \in { d \in DOMAIN TokensOf(kind) : d.unit = u } \X (1..(MaxDepth + 1)) :
        i <= Len(TokensOf(kind)[c]) }

\* the innermost context of a kind that unit u pushed and has not popped
Top(kind, u) ==
    IF nest[kind][u] = <<>> THEN Missing ELSE nest[kind][u][Len(nest[kind][u])]

\* a push that binds the context in both context variables
DoPushBoth(u, kind, c) ==
    LET r == PushCtx(CvOf(kind), TokensOf(kind), u, c)
    IN  /\ cv_app' = CvSet(cv_app, u, c)
        /\ cv_request' = CvSet(cv_request, u, c)
        /\ IF kind = "app"
           THEN app_tokens' = r.tokens /\ UNCHANGED req_tokens
           ELSE req_tokens' = r.tokens /\ UNCHANGED app_tokens
        /\ nest' = [nest EXCEPT ![kind][u] = Append(@, c)]
        /\ deep' = [deep EXCEPT ![kind][u] =
                        IF nest[kind][u] = <<>> THEN 1
                        ELSE IF @ < 2 THEN 2 ELSE @]
        /\ seen' = NotRead
        /\ UNCHANGED under

\* c.push() by unit u: its effect on the context variables and the history
DoPush(u, kind, c) ==
    LET r == PushCtx(CvOf(kind), TokensOf(kind), u, c)
    IN  /\ IF kind = "app"
           THEN cv_app' = r.cv /\ app_tokens' = r.tokens /\ UNCHANGED <<cv_request, req_tokens>>
           ELSE cv_request' = r.cv /\ req_tokens' = r.tokens /\ UNCHANGED <<cv_app, app_tokens>>
        /\ nest' = [nest EXCEPT ![kind][u] = Append(@, c)]
        /\ deep' = [deep EXCEPT ![kind][u] =
                        IF nest[kind][u] = <<>> THEN 1
                        ELSE IF @ < 2 THEN 2 ELSE @]
        /\ seen' = NotRead
        /\ UNCHANGED under

\* c.pop() by unit u
DoPop(u, kind, c) ==
    LET r == PopCtx(CvOf(kind), TokensOf(kind), u, c)
        n == nest[kind][u]
        lifo == n # <<>> /\ n[Len(n)] = c
    IN  /\ ~PopOutcome(TokensOf(kind), c).raised
        /\ IF kind = "app"
           THEN cv_app' = r.cv /\ app_tokens' = r.tokens /\ UNCHANGED <<cv_request, req_tokens>>
           ELSE cv_request' = r.cv /\ req_tokens' = r.tokens /\ UNCHANGED <<cv_app, app_tokens>>
        /\ nest' = [nest EXCEPT ![kind][u] = IF lifo THEN SubSeq(n, 1, Len(n) - 1) ELSE <<>>]
        /\ under' = [under EXCEPT ![kind][u] = IF lifo THEN @ ELSE r.cv[u]]
        /\ deep' = [deep EXCEPT ![kind][u] = IF lifo THEN @ ELSE 0]
        /\ seen' = NotRead

\* a read of a proxy by unit u
DoRead(u, proxy) ==
    /\ seen' = [unit |-> u, proxy |-> proxy.name,
                empty |-> Outstanding(proxy.kind, u) = {},
                top |-> Top(proxy.kind, u),
                res |-> GetCurrentObject(CvOf(proxy.kind), u, proxy)]
    /\ UNCHANGED <<cv_app, cv_request, app_tokens, req_tokens, nest, under, deep>>

\* unit u calls c.push()
Push(u, kind, c) ==
    /\ Cardinality(Outstanding("app", u)) + Cardinality(Outstanding("request", u)) < MaxDepth
    /\ DoPush(u, kind, c)
    /\ UNCHANGED <<routeVars, respVars, runVars, serverVars>>

\* unit u calls c.pop()
Pop(u, kind, c) ==
    /\ DoPop(u, kind, c)
    /\ UNCHANGED <<routeVars, respVars, runVars, serverVars>>

\* unit u reads a proxy
Read(u, proxy) ==
    /\ DoRead(u, proxy)
    /\ UNCHANGED <<routeVars, respVars, runVars, serverVars>>

CtxNext ==
    \/ \E u \in Units, kind \in Kinds : \E c \in CtxsOf(u) : Push(u, kind, c)
    \/ \E u \in Units, kind \in Kinds : \E c \in CtxsOf(u) : Pop(u, kind, c)
    \/ \E u \in Units, proxy \in Proxies : Read(u, proxy)

SpecCtx == CtxInit /\ [][CtxNext]_vars

(***************************************************************************)
(* The server specification: Miroslava.run accepts connections and starts  *)
(* one thread per connection, each running handle_client                   *)
(***************************************************************************)
Workers == 1..NumWorkers

\* the contexts handle_client creates for worker w's connection
WorkerCtx(w) == Ctx(w, 1)

NoRequest == [path |-> <<>>, method |-> ""]

NoError == [type |-> "", from |-> ""]

\* the table the application registered at start-up: @app.route("/a") on f
ServerTable ==
    AddUrlRule(<<>>, EmptyMap,
               [rule |-> <<"/", "a">>, endpoint |-> "", view |-> ViewF,
                hasMethods |-> FALSE, methods |-> <<>>, defaults |-> EmptyMap])

\* what a client puts on the wire: whether the blank line that ends the
\* header block arrives before the end of the stream, the request line, and
\* the Content-Length header (<<>>: none)
Messages ==
    [terminated : BOOLEAN,
     req : [path : { <<"/", "a">>, <<"/", "b">> }, method : {"GET"}],
     cl : { <<>>, <<"1">>, <<"x">> }]

\* the listening socket is open and run is in its accept loop
Listening == [listening |-> TRUE, loop |-> "accept"]

\* nothing received yet: header chunks without the blank line, the declared
\* Content-Length, the body bytes buffered, and whether the peer closed
\* before the declared length was there
NotReading == [head |-> 0, declared |-> 0, buffered |-> 0, short |-> FALSE]

ServerStart ==
    /\ server = Listening
    /\ conn = [w \in Workers |-> NotReading]
    /\ console = [w \in Workers |-> <<>>]
    /\ pc = [w \in Workers |-> "idle"]
    /\ request = [w \in Workers |-> NoRequest]
    /\ response = [w \in Workers |-> NoResponse]
    /\ err = [w \in Workers |-> NoError]
    /\ sent = [w \in Workers |-> <<>>]
    /\ closed = [w \in Workers |-> 0]
    /\ events = [w \in Workers |-> <<>>]

\* the state when run starts to accept, whatever the debug flag
ServerBoot ==
    /\ RespIdle
    /\ url_map = ServerTable.map
    /\ view_functions = ServerTable.views
    /\ last = <<>>
    /\ cv_app = [u \in Workers |-> Missing]
    /\ cv_request = [u \in Workers |-> Missing]
    /\ app_tokens = [c \in { WorkerCtx(w) : w \in Workers } |-> <<>>]
    /\ req_tokens = [c \in { WorkerCtx(w) : w \in Workers } |-> <<>>]
    /\ seen = NotRead
    /\ nest = [k \in Kinds |-> [u \in Workers |-> <<>>]]
    /\ under = [k \in Kinds |-> [u \in Workers |-> Missing]]
    /\ deep = [k \in Kinds |-> [u \in Workers |-> 0]]
    /\ ServerStart

\* one application serves every connection, with DEBUG at its default
ServerInit ==
    /\ ServerBoot
    /\ config = [w \in Workers |-> FALSE]

\* an accept loop that goes on after the listening socket was closed
AcceptWhileStopped(w) ==
    /\ pc[w] = "idle"
    /\ pc' = [pc EXCEPT ![w] = "recv"]
    /\ UNCHANGED <<events, request, response, err, sent, closed, routeVars, respVars, runVars, ctxVars>>

\* an accept loop that waits for the worker it started: it accepts only
\* when no worker is running
AcceptAfterJoin(w) ==
    /\ server.loop = "accept"
    /\ \A v \in Workers : pc[v] \in {"idle", "done"}
    /\ pc[w] = "idle"
    /\ pc' = [pc EXCEPT ![w] = "recv"]
    /\ UNCHANGED <<events, request, response, err, sent, closed, routeVars, respVars, runVars, ctxVars>>

\* run: server.accept() and Thread(target=self.handle_client).start()
Accept(w) ==
    /\ server.loop = "accept"
    /\ pc[w] = "idle"
    /\ pc' = [pc EXCEPT ![w] = "recv"]
    /\ UNCHANGED <<events, request, response, err, sent, closed, routeVars, respVars, runVars, ctxVars>>

\* a handle_client without the return of an unterminated header block: it
\* goes on with what was received
ReceiveNoDrop(w, msg) ==
    /\ pc[w] = "recv"
    /\ IF msg.cl # <<>> /\ ~IntOfStr(msg.cl).ok
       THEN /\ pc' = [pc EXCEPT ![w] = "except"]
            /\ err' = [err EXCEPT ![w] = [type |-> "ValueError", from |-> "parse"]]
            /\ UNCHANGED request
       ELSE /\ pc' = [pc EXCEPT ![w] = "push_app"]
            /\ request' = [request EXCEPT ![w] = msg.req]
            /\ UNCHANGED err
    /\ events' = [events EXCEPT ![w] = @ \o (IF msg.terminated THEN <<"recv">>
                                            ELSE <<"recv", "eof">>)]
    /\ UNCHANGED <<response, sent, closed, routeVars, respVars, runVars, ctxVars>>

\* handle_client up to the contexts' creation: the recv loop, make_environ,
\* int(cl) and the body loop, Request(environ)
Receive(w, msg) ==
    /\ pc[w] = "recv"
    /\ IF ~msg.terminated
       THEN pc' = [pc EXCEPT ![w] = "close"] /\ UNCHANGED <<request, err>>
       ELSE IF msg.cl # <<>> /\ ~IntOfStr(msg.cl).ok
       THEN /\ pc' = [pc EXCEPT ![w] = "except"]
            /\ err' = [err EXCEPT ![w] = [type |-> "ValueError", from |-> "parse"]]
            /\ UNCHANGED request
       ELSE /\ pc' = [pc EXCEPT ![w] = "push_app"]
            /\ request' = [request EXCEPT ![w] = msg.req]
            /\ UNCHANGED err
    /\ events' = [events EXCEPT ![w] = @ \o (IF msg.terminated THEN <<"recv">>
                                                ELSE <<"recv", "eof">>)]
    /\ UNCHANGED <<response, sent, closed, routeVars, respVars, runVars, ctxVars>>

\* app_ctx.push()
PushApp(w) ==
    /\ pc[w] = "push_app"
    /\ DoPush(w, "app", WorkerCtx(w))
    /\ pc' = [pc EXCEPT ![w] = "push_req"]
    /\ events' = [events EXCEPT ![w] = Append(@, "push")]
    /\ UNCHANGED <<request, response, err, sent, closed, routeVars, respVars, runVars>>

\* a handle_client that goes on to dispatch_request without pushing its
\* request context
PushRequestSkipped(w) ==
    /\ pc[w] = "push_req"
    /\ pc' = [pc EXCEPT ![w] = "dispatch"]
    /\ events' = [events EXCEPT ![w] = Append(@, "push")]
    /\ UNCHANGED <<request, response, err, sent, closed, routeVars, respVars, runVars, ctxVars>>

\* request_ctx.push()
PushRequest(w) ==
    /\ pc[w] = "push_req"
    /\ DoPush(w, "request", WorkerCtx(w))
    /\ pc' = [pc EXCEPT ![w] = "dispatch"]
    /\ events' = [events EXCEPT ![w] = Append(@, "push")]
    /\ UNCHANGED <<request, response, err, sent, closed, routeVars, respVars, runVars>>

\* code run inside dispatch_request (a view, abort) reads a proxy
HandlerRead(w, proxy) ==
    /\ pc[w] = "dispatch"
    /\ DoRead(w, proxy)
    /\ UNCHANGED <<serverVars, routeVars, respVars, runVars>>

\* where handle_client goes when the try body raised
SkipFinally(raised) == IF raised THEN "except" ELSE "pop_req"

\* where handle_client goes when the try body ends, normally or by an
\* exception: to its finally clause
AfterTryBody(raised) == "pop_req"

\* response = self.dispatch_request(request)
DispatchStep(w, beh) ==
    \E out \in { DispatchRequest(url_map, view_functions, request[w], beh,
                                 [file |-> FALSE, app_bound |-> cv_app[w] # Missing]) } :
        /\ pc[w] = "dispatch"
        /\ IF out.kind = "raise"
           THEN /\ err' = [err EXCEPT ![w] = [type |-> out.exc, from |-> out.via]]
                /\ pc' = [pc EXCEPT ![w] = AfterTryBody(TRUE)]
                /\ UNCHANGED response
           ELSE /\ response' = [response EXCEPT ![w] = out.resp]
                /\ pc' = [pc EXCEPT ![w] = "log"]
                /\ UNCHANGED err
        /\ seen' = IF seen.unit = w THEN NotRead ELSE seen
        /\ UNCHANGED <<cv_app, cv_request, app_tokens, req_tokens, nest, under, deep>>
        /\ events' = [events EXCEPT ![w] = Append(@, "dispatch")]
        /\ url_map' = MapAfter(url_map, out)
        /\ UNCHANGED <<request, sent, closed, view_functions, last, respVars, runVars>>

\* a handle_client that goes back to the socket for more request bytes once
\* the response is made
LogThenRead(w, fails) ==
    /\ pc[w] = "log"
    /\ IF fails
       THEN /\ err' = [err EXCEPT ![w] = [type |-> "OSError", from |-> "log_request"]]
            /\ pc' = [pc EXCEPT ![w] = "pop_req"]
       ELSE /\ pc' = [pc EXCEPT ![w] = "recv"]
            /\ UNCHANGED err
    /\ UNCHANGED <<events, request, response, sent, closed, routeVars, respVars, runVars, ctxVars>>

\* self.log_request(client_address, request, response); fails: print raises
LogRequest(w, fails) ==
    /\ pc[w] = "log"
    /\ IF fails
       THEN /\ err' = [err EXCEPT ![w] = [type |-> "OSError", from |-> "log_request"]]
            /\ pc' = [pc EXCEPT ![w] = AfterTryBody(TRUE)]
       ELSE /\ pc' = [pc EXCEPT ![w] = "send"]
            /\ UNCHANGED err
    /\ UNCHANGED <<events, request, response, sent, closed, routeVars, respVars, runVars, ctxVars>>

\* self.send_response(client, response); fails: client.sendall raises
SendResponse(w, fails) ==
    /\ pc[w] = "send"
    /\ IF fails
       THEN /\ err' = [err EXCEPT ![w] = [type |-> "OSError", from |-> "send_response"]]
            /\ UNCHANGED sent
       ELSE /\ sent' = [sent EXCEPT ![w] = Append(@, response[w])]
            /\ UNCHANGED err
    /\ pc' = [pc EXCEPT ![w] = AfterTryBody(fails)]
    /\ events' = [events EXCEPT ![w] = Append(@, "sendall")]
    /\ UNCHANGED <<request, response, closed, routeVars, respVars, runVars, ctxVars>>

\* finally: request_ctx.pop()
PopRequest(w) ==
    /\ pc[w] = "pop_req"
    /\ DoPop(w, "request", WorkerCtx(w))
    /\ pc' = [pc EXCEPT ![w] = "pop_app"]
    /\ UNCHANGED <<events, request, response, err, sent, closed, routeVars, respVars, runVars>>

\* finally: app_ctx.pop(); then the exception in flight, if any, goes on
PopApp(w) ==
    /\ pc[w] = "pop_app"
    /\ DoPop(w, "app", WorkerCtx(w))
    /\ pc' = [pc EXCEPT ![w] = IF err[w] # NoError THEN "except" ELSE "close"]
    /\ UNCHANGED <<events, request, response, err, sent, closed, routeVars, respVars, runVars>>

\* an except clause that closes the client socket itself, before the
\* finally clause does
ExceptCloses(w) ==
    /\ pc[w] = "except"
    /\ closed' = [closed EXCEPT ![w] = @ + 1]
    /\ events' = [events EXCEPT ![w] = Append(@, "close")]
    /\ pc' = [pc EXCEPT ![w] = "close"]
    /\ UNCHANGED <<request, response, err, sent, routeVars, respVars, runVars, ctxVars>>

\* a handle_client whose recv gives up on a client that stays silent
ExceptOrTimeout(w) ==
    /\ pc[w] \in {"except", "recv", "body"}
    /\ pc' = [pc EXCEPT ![w] = "close"]
    /\ UNCHANGED <<events, request, response, err, sent, closed, routeVars, respVars, runVars, ctxVars>>

\* an except clause that answers with the traceback when DEBUG is set
ExceptDebugPage(w) ==
    /\ pc[w] = "except"
    /\ pc' = [pc EXCEPT ![w] = "close"]
    /\ console' = [console EXCEPT ![w] = Append(@, "Internal Server Error")]
    /\ sent' = [sent EXCEPT ![w] = IF config[w]
                                   THEN Append(@, ErrorResponse("traceback", 500))
                                   ELSE @]
    /\ UNCHANGED <<server, conn, config>>
    /\ UNCHANGED <<events, request, response, err, closed, routeVars, respVars, ctxVars>>

\* except Exception as err: print(f"Internal Server Error: {err}"), and
\* traceback.print_exc() if self.config["DEBUG"]
Except(w) ==
    /\ pc[w] = "except"
    /\ pc' = [pc EXCEPT ![w] = "close"]
    /\ console' = [console EXCEPT ![w] = @ \o (IF config[w]
                                                THEN <<"Internal Server Error", "traceback">>
                                                ELSE <<"Internal Server Error">>)]
    /\ UNCHANGED <<server, conn, config>>
    /\ UNCHANGED <<events, request, response, err, sent, closed, routeVars, respVars, ctxVars>>

\* finally: client.close(); handle_client returns and the thread ends
Close(w) ==
    /\ pc[w] = "close"
    /\ closed' = [closed EXCEPT ![w] = @ + 1]
    /\ pc' = [pc EXCEPT ![w] = "done"]
    /\ events' = [events EXCEPT ![w] = Append(@, "close")]
    /\ UNCHANGED <<request, response, err, sent, routeVars, respVars, runVars, ctxVars>>

ServerNext ==
    \/ \E w \in Workers : Accept(w)
    \/ \E w \in Workers, msg \in Messages : Receive(w, msg)
    \/ \E w \in Workers : PushApp(w)
    \/ \E w \in Workers : PushRequest(w)
    \/ \E w \in Workers, proxy \in Proxies : HandlerRead(w, proxy)
    \/ \E w \in Workers, beh \in ViewBehaviours : DispatchStep(w, beh)
    \/ \E w \in Workers, fails \in BOOLEAN : LogRequest(w, fails)
    \/ \E w \in Workers, fails \in BOOLEAN : SendResponse(w, fails)
    \/ \E w \in Workers : PopRequest(w)
    \/ \E w \in Workers : PopApp(w)
    \/ \E w \in Workers : Except(w)
    \/ \E w \in Workers : Close(w)

SpecServer == ServerInit /\ [][ServerNext]_vars

(***************************************************************************)
(* Vocabulary of the routing properties                                    *)
(***************************************************************************)
Dispatched == last # <<>>

Rules == 1..Len(url_map)

\* the rule string holds a <name> or <type:name> placeholder
HasPlaceholder(s) == \E i \in 1..Len(s) : s[i] = "<" /\ PlaceholderAt(s, i).ok

\* rule i has a matcher and it matches the path
MatcherHits(i, path) ==
    url_map[i].pattern.compiled /\ PatternMatch(url_map[i].pattern.re, path).ok

\* rule i has no matcher and its string is the path
StringHits(i, path) == ~url_map[i].pattern.compiled /\ url_map[i].rule = path

\* the first rule that matches the path, in the order of the two passes
FirstHit(path) ==
    IF \E i \in Rules : StringHits(i, path)
    THEN CHOOSE i \in Rules : StringHits(i, path) /\ \A k \in 1..(i - 1) : ~StringHits(k, path)
    ELSE CHOOSE i \in Rules : MatcherHits(i, path) /\ \A k \in 1..(i - 1) : ~MatcherHits(k, path)

AnyHit(path) == \E i \in Rules : StringHits(i, path) \/ MatcherHits(i, path)

\* the call was resolved with rule i: its 405, or one call of the view bound
\* to its endpoint with the keyword arguments built from it, or the failed
\* lookup of that view
ResolvedWith(d, i) ==
    /\ d.out.rule = i
    /\ d.req.method \notin url_map[i].methods =>
          /\ d.out.kind = "response" /\ d.out.via = "405"
          /\ d.out.resp.status_code = 405 /\ d.out.calls = <<>>
    /\ d.req.method \in url_map[i].methods /\ url_map[i].endpoint \in DOMAIN view_functions =>
          /\ Len(d.out.calls) = 1
          /\ d.out.calls[1].view = view_functions[url_map[i].endpoint]
          /\ DOMAIN url_map[i].defaults \subseteq DOMAIN d.out.calls[1].kwargs

(***************************************************************************)
(* Routing properties                                                      *)
(***************************************************************************)
\* C1: for a path that is not a static-file path, if a rule without
\* placeholders has the path as its string and the matcher of a rule with
\* placeholders matches the path too, the request is resolved with a rule
\* without placeholders whose string is the path, whichever was registered
\* first.
C1_ExactBeforeDynamic ==
    Dispatched =>
        LET d == last[1]
            exact == {i \in Rules : /\ ~HasPlaceholder(url_map[i].rule)
                                    /\ url_map[i].rule = d.req.path}
            dynamic == {j \in Rules : /\ HasPlaceholder(url_map[j].rule)
                                      /\ MatcherHits(j, d.req.path)}
        IN  ~IsStaticPath(d.req.path) /\ exact # {} /\ dynamic # {}
                => \E i \in exact : ResolvedWith(d, i)

\* What the two passes do guarantee (C1 with "exact" read as "has no
\* compiled matcher"): a rule without a matcher whose string is the path
\* resolves the request before any rule with a matcher is tried.
PassOneBeforePassTwo ==
    Dispatched =>
        LET d == last[1]
        IN  ~IsStaticPath(d.req.path) /\ (\E i \in Rules : StringHits(i, d.req.path))
                => /\ StringHits(d.out.rule, d.req.path)
                   /\ ResolvedWith(d, FirstHit(d.req.path))

C9_RaisesOnlyWhenViewRaises ==
    Dispatched =>
        LET d == last[1]
        IN  d.out.kind = "raise" => d.beh.k = "raise" /\ d.out.via = "view"

\* C10: when the view that is called aborts with a status, the result is
\* the response the abort signal carries, with that status code, and the
\* dispatcher has not normalised it.
C10_AbortShortCircuit ==
    Dispatched =>
        LET d == last[1]
        IN  d.beh.k = "abort" /\ d.out.calls # <<>>
                => /\ d.out.kind = "response"
                   /\ d.out.via = "abort"
                   /\ d.out.resp.status_code = d.beh.status.v
                   /\ d.out.resp = Abort(d.beh.status, TRUE).resp
                   /\ ~d.out.normalized
                   /\ Len(d.out.calls) = 1

\* an abort in a view reached through a rule with a matcher (second pass)
C10_Witness ==
    /\ Dispatched
    /\ last[1].beh.k = "abort"
    /\ last[1].out.via = "abort"
    /\ last[1].out.resp.status_code = 418
    /\ url_map[last[1].out.rule].pattern.compiled

\* the same through a rule without a matcher (first pass)
C10_WitnessPassOne ==
    /\ Dispatched
    /\ last[1].beh.k = "abort"
    /\ last[1].out.via = "abort"
    /\ ~url_map[last[1].out.rule].pattern.compiled

(***************************************************************************)
(* Properties of the context stacks                                        *)
(***************************************************************************)
\* C5: a read of current_app, g, request or session made while every push of
\* the reading unit's contexts of that kind has been popped (or none was
\* made) fails with RuntimeError and the unbound message; it yields no
\* context.
C5_EmptyStackReadFails ==
    (seen.unit # 0 /\ seen.empty) =>
        /\ ~seen.res.ok
        /\ seen.res.exc = "RuntimeError"
        /\ seen.res.ctx = Missing

\* C7: on every unit and for both kinds, while pops come in the reverse
\* order of the pushes the current context is the innermost context still
\* pushed, and once all n pushes are popped it is what it was before the
\* first of them: the previous top, or unbound.
C7_LifoRestores ==
    \A kind \in Kinds, u \in Units :
        deep[kind][u] >= 1 =>
            CvOf(kind)[u] =
                IF nest[kind][u] = <<>> THEN under[kind][u]
                ELSE nest[kind][u][Len(nest[kind][u])]

\* two nested pushes over a context left behind by earlier pops, all popped
\* again in reverse order
C7_Witness ==
    \E kind \in Kinds, u \in Units :
        /\ nest[kind][u] = <<>>
        /\ deep[kind][u] >= 2
        /\ under[kind][u] # Missing
        /\ CvOf(kind)[u] = under[kind][u]

\* the same from an unbound start
C7_WitnessUnbound ==
    \E kind \in Kinds, u \in Units :
        /\ nest[kind][u] = <<>>
        /\ deep[kind][u] >= 2
        /\ under[kind][u] = Missing
        /\ CvOf(kind)[u] = Missing

(***************************************************************************)
(* Properties of handle_client and its worker threads                      *)
(***************************************************************************)
\* C4: under every interleaving of the workers, each worker's current
\* application and request context is the one that worker pushed last and
\* has not popped (unbound if there is none), and every read of a proxy by
\* a worker gives that context, never one of another worker.
C4_WorkerReadsOwnContext ==
    /\ \A w \in Workers, kind \in Kinds :
            /\ CvOf(kind)[w] = Top(kind, w)
            /\ CvOf(kind)[w] \in {Missing, WorkerCtx(w)}
    /\ seen.unit # 0 =>
            /\ seen.res.ok
            /\ seen.res.ctx = seen.top
            /\ seen.res.ctx = WorkerCtx(seen.unit)

\* worker 1 reads request while worker 2 has its own contexts pushed
C4_Witness ==
    /\ seen.unit = 1
    /\ seen.proxy = "request"
    /\ seen.res.ctx = WorkerCtx(1)
    /\ cv_request[2] = WorkerCtx(2)
    /\ cv_app[2] = WorkerCtx(2)

\* C6: once handle_client has left the try/finally that follows the pushes,
\* by a normal end or by an exception of dispatch_request, log_request or
\* send_response, both contexts are popped: the worker's context variables
\* and token lists are as they were on entry.
C6_ContextsPoppedOnEveryPath ==
    \A w \in Workers :
        (pc[w] \in {"except", "close", "done"} /\ deep["app"][w] >= 1) =>
            /\ cv_app[w] = Missing
            /\ cv_request[w] = Missing
            /\ app_tokens[WorkerCtx(w)] = <<>>
            /\ req_tokens[WorkerCtx(w)] = <<>>

\* handle_client returned after send_response raised with both contexts pushed
C6_Witness ==
    \E w \in Workers :
        /\ pc[w] = "done"
        /\ deep["app"][w] >= 1
        /\ deep["request"][w] >= 1
        /\ err[w].from = "send_response"

\* the same after the view raised inside dispatch_request
C6_WitnessDispatch ==
    \E w \in Workers :
        /\ pc[w] = "done"
        /\ deep["request"][w] >= 1
        /\ err[w].from = "view"

\* C8: when the view raised an exception that is no abort signal, the
\* client has been sent a response with status 500 by the time the
\* connection is closed.
C8_ViewFaultAnswered500 ==
    \A w \in Workers :
        (closed[w] > 0 /\ err[w].from = "view") =>
            \E i \in 1..Len(sent[w]) : sent[w][i].status_code = 500

(***************************************************************************)
(* Properties of the converters                                            *)
(***************************************************************************)
\* no rule of the table other than i matches the path
NoOtherHit(i, path) ==
    \A k \in Rules \ {i} : ~MatcherHits(k, path) /\ ~StringHits(k, path)

\* C11: with /item/<int:id> registered for GET on a view, and no other
\* rule matching, a GET for /item/12 calls the view once with id bound to
\* the integer 12, and a GET for /item/abc gives a 404 response and calls
\* no view.
C11_IntConverterBinds ==
    Dispatched =>
        LET d == last[1]
        IN  \A i \in Rules :
                (/\ url_map[i].rule = ItemRule
                 /\ "GET" \in url_map[i].methods
                 /\ url_map[i].endpoint \in DOMAIN view_functions
                 /\ d.req.method = "GET"
                 /\ NoOtherHit(i, d.req.path))
                    => /\ d.req.path = ItemPrefix \o <<"1", "2">> =>
                            d.out.calls =
                                <<[view |-> view_functions[url_map[i].endpoint],
                                   kwargs |-> [nm \in {IdName} |-> IntV(12)]]>>
                       /\ d.req.path = ItemPrefix \o <<"a", "b", "c">> =>
                            /\ d.out.kind = "response"
                            /\ d.out.resp.status_code = 404
                            /\ d.out.calls = <<>>

\* GET /item/12 reached the view with the integer 12
C11_Witness ==
    /\ Dispatched
    /\ last[1].req.path = ItemPrefix \o <<"1", "2">>
    /\ last[1].out.via = "view"
    /\ url_map[last[1].out.rule].rule = ItemRule
    /\ last[1].out.calls[1].kwargs[IdName] = IntV(12)

\* GET /item/abc with /item/<int:id> as the only rule gave 404
C11_WitnessNotFound ==
    /\ Dispatched
    /\ last[1].req.path = ItemPrefix \o <<"a", "b", "c">>
    /\ last[1].req.method = "GET"
    /\ Len(url_map) = 1
    /\ url_map[1].rule = ItemRule
    /\ "GET" \in url_map[1].methods
    /\ last[1].out.resp.status_code = 404

\* the converter of a group captured by rule i from the path raises
ConversionRaises(i, path) ==
    LET groups == PatternMatch(url_map[i].pattern.re, path).groups
    IN  \E k \in 1..Len(groups) :
            /\ groups[k].name \in DOMAIN url_map[i].converters
            /\ url_map[i].converters[groups[k].name] = "int"
            /\ Len(groups[k].text) > IntMaxStrDigits

\* C12: when the rule the request is resolved with has a matcher that
\* matches the path and allows the method, and the conversion of a captured
\* segment raises, dispatch_request returns a 404 response, calls no view
\* and raises nothing.
C12_ConverterFailureIs404 ==
    Dispatched =>
        LET d == last[1]
        IN  (/\ ~IsStaticPath(d.req.path)
             /\ AnyHit(d.req.path)
             /\ MatcherHits(FirstHit(d.req.path), d.req.path)
             /\ d.req.method \in url_map[FirstHit(d.req.path)].methods
             /\ url_map[FirstHit(d.req.path)].endpoint \in DOMAIN view_functions
             /\ ConversionRaises(FirstHit(d.req.path), d.req.path))
                => /\ d.out.kind = "response"
                   /\ d.out.resp.status_code = 404
                   /\ d.out.calls = <<>>

\* a number too long for int() was captured by /item/<int:id>: 404
C12_Witness ==
    /\ Dispatched
    /\ AnyHit(last[1].req.path)
    /\ MatcherHits(FirstHit(last[1].req.path), last[1].req.path)
    /\ last[1].req.method \in url_map[FirstHit(last[1].req.path)].methods
    /\ url_map[FirstHit(last[1].req.path)].endpoint \in DOMAIN view_functions
    /\ ConversionRaises(FirstHit(last[1].req.path), last[1].req.path)
    /\ last[1].out.via = "404"
    /\ last[1].out.rule = FirstHit(last[1].req.path)

(***************************************************************************)
(* Properties of the static-file test and of the 404 fallback              *)
(***************************************************************************)
\* the path holds a '.' and its last character is not '/'
DotAndNoSlashEnd(path) ==
    /\ \E k \in 1..Len(path) : path[k] = "."
    /\ path[Len(path)] # "/"

\* C13: for a path with a '.' that does not end in '/', dispatch_request
\* returns what send_static_file returns and calls no view, whatever the
\* table holds.
C13_StaticPathBypassesRules ==
    Dispatched =>
        LET d == last[1]
        IN  DotAndNoSlashEnd(d.req.path)
                => /\ d.out.kind = "response"
                   /\ d.out.via = "static"
                   /\ d.out.resp = SendStaticFile(d.env.file)
                   /\ d.out.calls = <<>>

\* the table holds /item/1.2 itself and /item/<id>, both for the request's
\* method, and the existing file is what GET /item/1.2 gives
C13_Witness ==
    /\ Dispatched
    /\ last[1].req.path = ItemFile
    /\ \E i, j \in Rules :
          /\ StringHits(i, ItemFile) /\ last[1].req.method \in url_map[i].methods
          /\ MatcherHits(j, ItemFile) /\ last[1].req.method \in url_map[j].methods
    /\ last[1].env.file
    /\ last[1].out.via = "static"
    /\ last[1].out.resp.status_code = 200

\* C14: when the path is no static-file path, is the string of no rule
\* without placeholders and is matched by the matcher of no rule with
\* placeholders, dispatch_request returns a 404 response and calls no view.
C14_NoExactNoDynamicIs404 ==
    Dispatched =>
        LET d == last[1]
        IN  (/\ ~DotAndNoSlashEnd(d.req.path)
             /\ \A i \in Rules :
                    IF HasPlaceholder(url_map[i].rule)
                    THEN ~MatcherHits(i, d.req.path)
                    ELSE url_map[i].rule # d.req.path)
                => /\ d.out.kind = "response"
                   /\ d.out.resp.status_code = 404
                   /\ d.out.calls = <<>>

\* What the two loops do guarantee: when the path is the string of no rule
\* without a matcher and no rule's matcher matches it, the result is a 404
\* response and no view is called.
NoHitIs404 ==
    Dispatched =>
        LET d == last[1]
        IN  (~DotAndNoSlashEnd(d.req.path) /\ ~AnyHit(d.req.path))
                => /\ d.out.kind = "response"
                   /\ d.out.resp.status_code = 404
                   /\ d.out.calls = <<>>

\* rules are registered, none matches, and the result is the 404
NoHitIs404_Witness ==
    /\ Dispatched
    /\ Len(url_map) >= 2
    /\ ~DotAndNoSlashEnd(last[1].req.path)
    /\ ~AnyHit(last[1].req.path)
    /\ last[1].out.via = "404"
    /\ last[1].out.resp.status_code = 404

(***************************************************************************)
(* The normalisation specification: one view return value, handed to       *)
(* make_response                                                           *)
(***************************************************************************)
ListBody == [t |-> "list"]

BytesBody(d) == [t |-> "bytes", data |-> d]

\* a ready-made Response
RespBody == [t |-> "resp", r |-> NewResponse("ready", IntV(202), "").resp]

\* a body of another type, such as a number
OtherBody == [t |-> "int"]

Bodies == {StrBody("text"), BytesBody("text"), DictBody, ListBody, RespBody, OtherBody}

\* {"X-Test": "v"}
TestHeader == [k \in {"X-Test"} |-> "v"]

\* what a view may put where a status is expected
StatusValues ==
    {IntV(201), IntV(0), IntV(999), EnumV(201), StrV(<<"2", "0", "1">>),
     StrV(<<"2", "0", "1", " ", "x">>), StrV(<<"9", "9", "9">>),
     StrV(<<"a", "b", "c">>), StrV(<<>>)}

\* what a view may put where headers are expected
HeaderValues == {MapV(TestHeader), MapV(EmptyMap), PairsV(TestHeader), NoneV, FloatV}

\* a tuple of a length other than 2 and 3
Tuple(len, body) == [n |-> len, body |-> body, second |-> NoneV, third |-> NoneV]

ReturnValues ==
    { Plain(b) : b \in Bodies }
        \cup { Pair(b, x) : b \in Bodies, x \in StatusValues \cup HeaderValues }
        \cup { Triple(b, x, h) : b \in Bodies, x \in StatusValues \cup {NoneV},
                                 h \in HeaderValues }
        \cup { Tuple(len, b) : len \in {1, 4}, b \in Bodies }

RespInit ==
    /\ view_rv \in ReturnValues
    /\ made = NotMade
    /\ RouteIdle /\ CtxIdle /\ ServerIdle

\* response = self.make_response(rv)
Normalize ==
    /\ made = NotMade
    /\ made' = MakeResponse(view_rv)
    /\ UNCHANGED <<view_rv, routeVars, ctxVars, serverVars, runVars>>

RespNext == Normalize

SpecResp == RespInit /\ [][RespNext]_vars

(***************************************************************************)
(* Properties of make_response                                             *)
(***************************************************************************)
Normalized == made # NotMade

\* an integer, a status enum or a numeric string
StatusLike(x) ==
    \/ x.t \in {"int", "enum"}
    \/ x.t = "str" /\ IntOfStr(FirstWord(x.s)).ok

\* the number a status-like value stands for
StatusNumber(x) == IF x.t = "str" THEN IntOfStr(FirstWord(x.s)).v ELSE x.v

\* every pair of h is a header of resp
Merged(resp, h) ==
    \A k \in DOMAIN h :
        /\ HeaderLower(k) \in DOMAIN resp.headers
        /\ resp.headers[HeaderLower(k)] = h[k]

\* C15: a 3-tuple (mapping body, status, headers) such as
\* ({"a": 1}, 201, {"X-Test": "v"}) is normalised into a response with that
\* status code, the given headers, the application/json content type and the
\* JSON text of the mapping as body.
C15_JsonTripleNormalized ==
    (/\ Normalized
     /\ view_rv.n = 3
     /\ view_rv.body.t = "dict"
     /\ view_rv.second = IntV(201)
     /\ view_rv.third.t = "map")
        => /\ made.ok
           /\ made.resp.status_code = 201
           /\ Merged(made.resp, view_rv.third.h)
           /\ made.resp.headers["content-type"] = Json
           /\ made.resp.data = "json"

\* C16: for a 2-tuple (body, x) of a string, byte, mapping or sequence body
\* and an x that is a status value, a string or a header collection,
\* normalisation does not fail; when x is an integer, a status enum or a
\* numeric string the response has status x and no headers of the tuple, and
\* for every other x it has status 200 and, x being a header collection, the
\* headers of x.
C16_PairStatusOrHeaders ==
    (/\ Normalized
     /\ view_rv.n = 2
     /\ view_rv.body.t \in {"str", "bytes", "dict", "list"}
     /\ view_rv.second.t \in {"int", "enum", "str", "map", "pairs"}) =>
        LET x == view_rv.second
            plain == MakeResponse(Plain(view_rv.body))
        IN  /\ made.ok
            /\ IF StatusLike(x)
               THEN /\ made.resp.status_code = StatusNumber(x)
                    /\ made.resp.headers = plain.resp.headers
               ELSE /\ made.resp.status_code = default_status
                    /\ x.t \in {"map", "pairs"} => Merged(made.resp, x.h)

(***************************************************************************)
(* Properties of handle_client's use of the connection                     *)
(***************************************************************************)
Happened(w, ev) == \E k \in 1..Len(events[w]) : events[w][k] = ev

Count(w, ev) == Cardinality({k \in 1..Len(events[w]) : events[w][k] = ev})

\* ev1 never comes after ev2 on w's connection
NeverAfter(w, ev1, ev2) ==
    \A j, k \in 1..Len(events[w]) :
        (events[w][j] = ev2 /\ events[w][k] = ev1) => k < j

\* C17: when the stream ends before the blank line that ends the header
\* block, handle_client pushes no context, dispatches nothing, writes
\* nothing, raises nothing, and closes the client socket before it returns.
C17_UnterminatedIsDropped ==
    \A w \in Workers :
        Happened(w, "eof") =>
            /\ ~Happened(w, "push") /\ ~Happened(w, "dispatch")
            /\ ~Happened(w, "sendall") /\ sent[w] = <<>>
            /\ cv_app[w] = Missing /\ cv_request[w] = Missing
            /\ err[w] = NoError
            /\ pc[w] \in {"close", "done"}
            /\ pc[w] = "done" => closed[w] = 1 /\ events[w] = <<"recv", "eof", "close">>

\* a dropped connection: the worker has returned
C17_Witness ==
    \E w \in Workers :
        /\ pc[w] = "done"
        /\ Happened(w, "eof")
        /\ closed[w] = 1

\* C18: on one connection every read of request bytes comes before dispatch
\* starts and dispatch (the view call and make_response) has finished, with
\* its response at hand, before the response is written; nothing is read
\* from the socket once dispatch has begun.
C18_ReadThenDispatchThenWrite ==
    \A w \in Workers :
        /\ NeverAfter(w, "recv", "dispatch")
        /\ NeverAfter(w, "recv", "sendall")
        /\ NeverAfter(w, "dispatch", "sendall")
        /\ Happened(w, "dispatch") => Happened(w, "recv")
        /\ Happened(w, "sendall") => Happened(w, "dispatch")
        /\ pc[w] = "send" => response[w] # NoResponse
        /\ Count(w, "dispatch") <= 1

\* a connection that was read, dispatched and answered
C18_Witness ==
    \E w \in Workers :
        events[w] = <<"recv", "push", "push", "dispatch", "sendall", "close">>

\* C19: in every execution of handle_client, whether it answers, drops the
\* request or meets an exception, client.close() is called exactly once and
\* is the last thing done on the connection; at most one response is
\* written, by one sendall call, and after that call the connection is
\* neither read nor written.
C19_ClosedOnceAtTheEnd ==
    \A w \in Workers :
        /\ closed[w] = Count(w, "close")
        /\ closed[w] = (IF pc[w] = "done" THEN 1 ELSE 0)
        /\ Happened(w, "close") => events[w][Len(events[w])] = "close"
        /\ Count(w, "sendall") <= 1
        /\ Len(sent[w]) <= Count(w, "sendall")
        /\ \A j, k \in 1..Len(events[w]) :
               (events[w][j] = "sendall" /\ j < k) => events[w][k] = "close"

\* two connections are over: one was answered, the other ended in the
\* except clause
C19_Witness ==
    \E w, v \in Workers :
        /\ pc[w] = "done" /\ Len(sent[w]) = 1 /\ err[w] = NoError
        /\ pc[v] = "done" /\ err[v] # NoError /\ closed[v] = 1

(***************************************************************************)
(* Properties of registration                                              *)
(***************************************************************************)
\* the view function dispatch_request looks up for rule i of the table
HandlerOf(map, views, i) ==
    IF map[i].endpoint \in DOMAIN views THEN views[map[i].endpoint] ELSE NoView

\* the rules of map are the first rules of map2, unchanged and in order
IsPrefix(map, map2) ==
    /\ Len(map) <= Len(map2)
    /\ \A i \in 1..Len(map) : map2[i] = map[i]

\* C20: every registration that succeeds appends exactly one rule and
\* removes, replaces or reorders none; every rule already in the table, whose
\* endpoint has a handler, is dispatched to the same handler afterwards, also
\* when the registration adds a pattern under that endpoint.
C20_AppendOnlyAliases ==
    [][ /\ IsPrefix(url_map, url_map')
        /\ Len(url_map') <= Len(url_map) + 1
        /\ (view_functions' # view_functions) => Len(url_map') = Len(url_map) + 1
        /\ \A i \in 1..Len(url_map) :
               HandlerOf(url_map, view_functions, i) # NoView =>
                   HandlerOf(url_map', view_functions', i)
                       = HandlerOf(url_map, view_functions, i) ]_vars

\* What add_url_rule does guarantee: the table only grows, by one rule per
\* call and at its end, and a rule's handler changes only when a call
\* supplies another view function under the rule's endpoint.
AppendOnly ==
    [][ /\ IsPrefix(url_map, url_map')
        /\ Len(url_map') <= Len(url_map) + 1
        /\ (view_functions' # view_functions) => Len(url_map') = Len(url_map) + 1
        /\ \A i \in 1..Len(url_map) :
               HandlerOf(url_map', view_functions', i) # HandlerOf(url_map, view_functions, i)
                   => /\ url_map'[Len(url_map')].endpoint = url_map[i].endpoint
                      /\ HandlerOf(url_map', view_functions', i)
                             = HandlerOf(url_map', view_functions', Len(url_map')) ]_vars

\* an alias was added under an endpoint that kept its handler
AppendOnly_Witness ==
    \E i, j \in Rules :
        /\ i < j
        /\ url_map[i].endpoint = url_map[j].endpoint
        /\ url_map[i].rule # url_map[j].rule
        /\ HandlerOf(url_map, view_functions, i) = ViewF

(***************************************************************************)
(* The registration specification: calls of add_url_rule, those that fail  *)
(* included                                                                *)
(***************************************************************************)
\* /a, /<x>, and three rules add_url_rule refuses: a (no leading slash),
\* /<x>/<x> and /<x>/<int:x> (a placeholder name used twice)
GoodRules == { <<"/", "a">>, <<"/", "<", "x", ">">> }

BadRules ==
    { <<"a">>,
      <<"/", "<", "x", ">", "/", "<", "x", ">">>,
      <<"/", "<", "x", ">", "/", "<", "i", "n", "t", ":", "x", ">">> }

\* methods not given, methods=["post"], methods=["get", "POST"], methods=[]
MethodArgs ==
    { [hasMethods |-> FALSE, methods |-> <<>>],
      [hasMethods |-> TRUE, methods |-> <<"post">>],
      [hasMethods |-> TRUE, methods |-> <<"get", "POST">>],
      [hasMethods |-> TRUE, methods |-> <<>>] }

\* @app.route(rule, methods=...) on f, and add_url_rule(rule) with neither
\* an endpoint nor a view function
RegCalls ==
    { [rule |-> r, endpoint |-> "", view |-> ViewF,
       hasMethods |-> m.hasMethods, methods |-> m.methods, defaults |-> EmptyMap] :
        r \in GoodRules \cup BadRules, m \in MethodArgs }
    \cup
    { [rule |-> <<"/", "a">>, endpoint |-> "", view |-> NoView,
       hasMethods |-> FALSE, methods |-> <<>>, defaults |-> EmptyMap] }

\* one call of add_url_rule that raises; last holds the call, the exception
\* and the tables as they were when the call was made
RegisterFails(call) ==
    LET r == AddUrlRule(url_map, view_functions, call)
    IN  /\ last = <<>>
        /\ ~r.ok
        /\ url_map' = r.map
        /\ view_functions' = r.views
        /\ last' = <<[call |-> call, exc |-> r.exc,
                      map |-> url_map, views |-> view_functions]>>
        /\ UNCHANGED <<ctxVars, serverVars, respVars, runVars>>

RegNext ==
    \/ \E call \in RegCalls : Register(call)
    \/ \E call \in RegCalls : RegisterFails(call)
    \/ Return

SpecReg == RouteInit /\ [][RegNext]_vars

(***************************************************************************)
(* Properties of the rules in the table                                    *)
(***************************************************************************)
\* the names of the placeholders of a rule string, in order
PlaceholderNames(rule) ==
    LET re == CompileFrom(rule, 1)
    IN  [k \in 1..Cardinality(GroupsOf(re)) |->
            re[CHOOSE j \in GroupsOf(re) :
                   Cardinality({i \in GroupsOf(re) : i <= j}) = k].name]

Distinct(seq) == \A j, k \in 1..Len(seq) : seq[j] = seq[k] => j = k

WellFormed(rule) ==
    /\ rule # <<>> /\ rule[1] = "/"
    /\ Distinct(PlaceholderNames(rule))

\* C21: every rule in the table starts with '/' and has pairwise distinct
\* placeholder names; a registration whose rule breaks either condition
\* raises, and both the rule table and the view-function table are then
\* what they were before the call.
C21_RulesWellFormed ==
    /\ \A i \in Rules : WellFormed(url_map[i].rule)
    /\ last # <<>> =>
           /\ url_map = last[1].map
           /\ view_functions = last[1].views
    /\ \A call \in RegCalls :
           ~WellFormed(call.rule) => ~AddUrlRule(url_map, view_functions, call).ok

\* a registration of /<x>/<int:x> has failed on a table that holds rules
C21_Witness ==
    /\ last # <<>>
    /\ ~Distinct(PlaceholderNames(last[1].call.rule))
    /\ last[1].exc = "re.error"
    /\ Len(url_map) >= 1

\* the same for a rule without a leading slash
C21_WitnessNoSlash ==
    /\ last # <<>>
    /\ last[1].call.rule = <<"a">>
    /\ last[1].exc = "ValueError"
    /\ Len(url_map) >= 1

\* the last rule of the table a successful call gives
Added(call) ==
    LET r == AddUrlRule(url_map, view_functions, call)
    IN  r.map[Len(r.map)]

Succeeds(call) == AddUrlRule(url_map, view_functions, call).ok

\* C22: every rule in the table has a non-empty set of methods, all of them
\* upper-case, and a registration that gives no methods yields {GET};
\* whatever methods argument is passed, an empty collection and lower-case
\* names included.
C22_MethodsNonEmptyUpper ==
    /\ \A i \in Rules :
           /\ url_map[i].methods # {}
           /\ \A m \in url_map[i].methods : Upper(m) = m
    /\ \A call \in RegCalls :
           (Succeeds(call) /\ ~call.hasMethods) => Added(call).methods = {"GET"}

\* What add_url_rule does guarantee: the methods of a rule are the given
\* names in upper case, {GET} when the argument is left out, and no method
\* at all when an empty collection is given.
MethodsUpper ==
    /\ \A i \in Rules : \A m \in url_map[i].methods : Upper(m) = m
    /\ \A call \in RegCalls :
           Succeeds(call) =>
               Added(call).methods =
                   IF ~call.hasMethods THEN {"GET"}
                   ELSE {Upper(call.methods[k]) : k \in 1..Len(call.methods)}

\* a rule registered with lower-case names is in the table
MethodsUpper_Witness ==
    \E i \in Rules : url_map[i].methods = {"GET", "POST"}

(***************************************************************************)
(* Properties of pop and of the two context variables                      *)
(***************************************************************************)
\* C23: pop() of a context that has no outstanding push raises and is never
\* a silent no-op; pop() of a context with an outstanding push removes the
\* top and returns it.
C23_PopEmptyFails ==
    \A kind \in Kinds : \A c \in DOMAIN TokensOf(kind) :
        LET o == PopOutcome(TokensOf(kind), c)
        IN  IF TokensOf(kind)[c] = <<>>
            THEN o.raised
            ELSE ~o.raised /\ o.removed /\ o.value = c

\* What pop does guarantee: it never raises; with an outstanding push it
\* takes the context's newest token and resets the context variable to what
\* that token saved, and without one it changes nothing.
PopNeverFails ==
    \A kind \in Kinds, u \in Units : \A c \in CtxsOf(u) :
        LET o == PopOutcome(TokensOf(kind), c)
            r == PopCtx(CvOf(kind), TokensOf(kind), u, c)
        IN  /\ ~o.raised
            /\ o.removed => Len(r.tokens[c]) = Len(TokensOf(kind)[c]) - 1
            /\ ~o.removed => r.cv = CvOf(kind) /\ r.tokens = TokensOf(kind)

\* a context was pushed, and another one of the same unit was not
PopNeverFails_Witness ==
    \E kind \in Kinds, u \in Units :
        \E c, d \in CtxsOf(u) :
            TokensOf(kind)[c] # <<>> /\ TokensOf(kind)[d] = <<>>

(***************************************************************************)
(* Properties of the answers handle_client gives                           *)
(***************************************************************************)
\* C24: a connection is closed with no response written only when its
\* header block never arrived completely; every connection whose header
\* block arrived has got exactly one response, with a status code, when it
\* is closed, whatever Content-Length says and whatever the view does.
C24_AnsweredUnlessUnterminated ==
    \A w \in Workers :
        pc[w] = "done" =>
            IF Happened(w, "eof")
            THEN sent[w] = <<>>
            ELSE /\ Len(sent[w]) = 1
                 /\ sent[w][1].status_code \in HTTP_STATUS_CODES

\* What handle_client does guarantee: a connection closed without a
\* response either never delivered its header block or met an exception,
\* and an answered connection got one response.
AnsweredUnlessFailed ==
    \A w \in Workers :
        pc[w] = "done" =>
            /\ Len(sent[w]) <= 1
            /\ sent[w] = <<>> => (Happened(w, "eof") \/ err[w] # NoError)
            /\ (err[w] = NoError /\ ~Happened(w, "eof")) => Len(sent[w]) = 1

\* a connection whose Content-Length is no number was closed unanswered
AnsweredUnlessFailed_Witness ==
    \E w \in Workers :
        /\ pc[w] = "done"
        /\ err[w] = [type |-> "ValueError", from |-> "parse"]
        /\ sent[w] = <<>>

(***************************************************************************)
(* The acceptor specification: run's accept loop, its end, and the workers *)
(* it started                                                              *)
(***************************************************************************)
\* how the accept loop ends: Ctrl+C, or server.accept() raising
LoopEnds == {"KeyboardInterrupt", "OSError"}

\* what the clients of this specification send: GET /a, complete or cut off
RunMessages ==
    [terminated : BOOLEAN,
     req : [path : { <<"/", "a">> }, method : {"GET"}],
     cl : { <<>> }]

\* the views of this specification return a text or raise
RunBehaviours == { [k |-> "return", rv |-> Plain(StrBody("text"))], [k |-> "raise"] }

\* the accept loop ends: except KeyboardInterrupt: pass, then finally:
\* server.close(); another exception leaves run after the finally clause
Stop(how) ==
    /\ server.loop = "accept"
    /\ server' = [listening |-> FALSE,
                  loop |-> IF how = "KeyboardInterrupt" THEN "returned" ELSE "raised"]
    /\ UNCHANGED <<conn, config, console, serverVars, routeVars, respVars, ctxVars>>

\* a step of worker w past its receive loops
WorkerStep(w) ==
    \/ PushApp(w)
    \/ PushRequest(w)
    \/ \E beh \in RunBehaviours : DispatchStep(w, beh)
    \/ LogRequest(w, FALSE)
    \/ SendResponse(w, FALSE)
    \/ PopRequest(w)
    \/ PopApp(w)
    \/ Except(w)
    \/ Close(w)

RunNext ==
    \/ \E w \in Workers : Accept(w)
    \/ \E how \in LoopEnds : Stop(how)
    \/ \E w \in Workers, msg \in RunMessages : Receive(w, msg)
    \/ \E w \in Workers : WorkerStep(w)

SpecRun == ServerInit /\ [][RunNext]_vars

(***************************************************************************)
(* Properties of the accept loop                                           *)
(***************************************************************************)
Stopped == server.loop # "accept"

\* worker w was started and has neither returned nor is it waiting for its
\* client
Running(w) == pc[w] \notin {"idle", "recv", "done"}

\* C25: once the accept loop has ended, by an interrupt or by another
\* exception, the listening socket is closed and no connection is accepted
\* any more; ending the loop changes nothing about the workers, and a worker
\* that is running can still take its next step, up to its response and the
\* close of its own connection.
C25_InterruptStopsAccepting ==
    /\ [](Stopped => ~server.listening)
    /\ [](Stopped => \A w \in Workers : Running(w) => ENABLED WorkerStep(w))
    /\ [][ /\ Stopped => (server' = server /\ \A w \in Workers : pc[w] = "idle" => pc'[w] = "idle")
           /\ server' # server => UNCHANGED <<serverVars, ctxVars, conn>> ]_vars

\* after an interrupt: one worker has answered and returned, another is
\* about to write its response
C25_Witness ==
    /\ server.loop = "returned"
    /\ \E w, v \in Workers :
           /\ pc[w] = "done" /\ Len(sent[w]) = 1
           /\ pc[v] = "send"

\* the same after the loop ended by another exception
C25_WitnessRaised ==
    /\ server.loop = "raised"
    /\ ~server.listening
    /\ \E w \in Workers : pc[w] = "done" /\ Len(sent[w]) = 1

\* C26: every accept starts exactly one worker, in handle_client on the
\* accepted connection, and leaves every other worker alone; while the loop
\* runs, accept never waits for a worker, so a worker blocked on a silent
\* client does not keep later connections from being accepted.
C26_OneWorkerPerConnection ==
    /\ [](~Stopped => \A w \in Workers : pc[w] = "idle" => ENABLED Accept(w))
    /\ [][ \A w \in Workers :
               (pc[w] = "idle" /\ pc'[w] # "idle") =>
                   /\ pc'[w] = "recv"
                   /\ \A v \in Workers \ {w} : pc'[v] = pc[v]
                   /\ UNCHANGED <<server, conn, request, response, err, sent, closed, events, ctxVars>> ]_vars

\* one worker waits for its silent client while a connection accepted
\* beside it was answered and closed
C26_Witness ==
    \E w, v \in Workers :
        /\ pc[w] = "recv"
        /\ pc[v] = "done" /\ Len(sent[v]) = 1 /\ closed[v] = 1

(***************************************************************************)
(* The receive specification: one connection, with handle_client's two     *)
(* recv loops taken call by call                                           *)
(***************************************************************************)
\* the connection followed: the first one accepted
FirstWorker == CHOOSE w \in Workers : \A v \in Workers : w <= v

\* the decimal text of a length below ten
LengthText(n) == <<CHOOSE c \in Digits : DigitValue(c) = n>>

\* the Content-Length values tried: none, no number, and 0..MaxLength
ContentLengths == { <<>>, <<"x">> } \cup { LengthText(n) : n \in 0..MaxLength }

\* what one recv call of the header loop returns: bytes that leave the
\* blank line outstanding, the rest of the header block (with its
\* Content-Length and the body bytes that came along), or b"" (peer closed)
HeaderChunks ==
    { [k |-> "part", cl |-> <<>>, extra |-> 0], [k |-> "eof", cl |-> <<>>, extra |-> 0] }
        \cup [k : {"end"}, cl : ContentLengths, extra : 0..MaxLength]

\* what Receive goes on with: GET /a
TheRequest == [path |-> <<"/", "a">>, method |-> "GET"]

\* one recv call of the header loop and what follows it without another
\* recv: the loop's end, the return of an unterminated block, make_environ
\* and int(cl)
RecvHeader(w, chunk) ==
    /\ pc[w] = "recv"
    /\ chunk.k = "part" => conn[w].head < MaxChunks
    /\ events' = [events EXCEPT ![w] =
                      (IF @ = <<>> THEN <<"recv">> ELSE @)
                          \o (IF chunk.k = "eof" THEN <<"eof">> ELSE <<>>)]
    /\ CASE chunk.k = "part" ->
                /\ conn' = [conn EXCEPT ![w].head = @ + 1]
                /\ UNCHANGED <<pc, err>>
         [] chunk.k = "eof" ->
                /\ pc' = [pc EXCEPT ![w] = "close"]
                /\ UNCHANGED <<conn, err>>
         [] OTHER ->
                IF chunk.cl # <<>> /\ ~IntOfStr(chunk.cl).ok
                THEN /\ pc' = [pc EXCEPT ![w] = "except"]
                     /\ err' = [err EXCEPT ![w] = [type |-> "ValueError", from |-> "parse"]]
                     /\ UNCHANGED conn
                ELSE /\ pc' = [pc EXCEPT ![w] = "body"]
                     /\ conn' = [conn EXCEPT
                                    ![w].declared = IF chunk.cl = <<>> THEN 0
                                                    ELSE IntOfStr(chunk.cl).v,
                                    ![w].buffered = chunk.extra]
                     /\ UNCHANGED err
    /\ UNCHANGED <<server, config, console, request, response, sent, closed, routeVars, respVars, ctxVars>>

\* one recv call of the body loop: n bytes, or b"" and the break
RecvBody(w, n) ==
    /\ pc[w] = "body"
    /\ conn[w].buffered < conn[w].declared
    /\ ~conn[w].short
    /\ conn' = IF n = 0 THEN [conn EXCEPT ![w].short = TRUE]
               ELSE [conn EXCEPT ![w].buffered = @ + n]
    /\ UNCHANGED <<server, config, console, serverVars, routeVars, respVars, ctxVars>>

\* a handle_client that does not wait for the declared body
MakeRequestEarly(w) ==
    /\ pc[w] = "body"
    /\ pc' = [pc EXCEPT ![w] = "push_app"]
    /\ request' = [request EXCEPT ![w] = TheRequest]
    /\ UNCHANGED <<response, err, sent, closed, events, runVars, routeVars, respVars, ctxVars>>

\* the body loop is over: Request(environ) and the two contexts are made
MakeRequest(w) ==
    /\ pc[w] = "body"
    /\ conn[w].buffered >= conn[w].declared \/ conn[w].short
    /\ pc' = [pc EXCEPT ![w] = "push_app"]
    /\ request' = [request EXCEPT ![w] = TheRequest]
    /\ UNCHANGED <<response, err, sent, closed, events, runVars, routeVars, respVars, ctxVars>>

BodyNext ==
    \/ Accept(FirstWorker)
    \/ \E chunk \in HeaderChunks : RecvHeader(FirstWorker, chunk)
    \/ \E n \in 0..MaxLength : RecvBody(FirstWorker, n)
    \/ MakeRequest(FirstWorker)
    \/ WorkerStep(FirstWorker)

SpecBody == ServerInit /\ [][BodyNext]_vars

(***************************************************************************)
(* Properties of the receive loops                                         *)
(***************************************************************************)
\* fewer body bytes are buffered than declared, and the peer has not closed
AwaitingBody(w) ==
    /\ pc[w] = "body"
    /\ conn[w].buffered < conn[w].declared
    /\ ~conn[w].short

\* C27: with Content-Length n declared and fewer than n body bytes
\* buffered, handle_client does nothing but receive: the request is made and
\* dispatched only once n bytes are buffered or recv returned b""; in that
\* early-close case the short body raises nothing, the request is
\* dispatched and, unless something else fails, its response is written.
C27_BodyAwaited ==
    /\ [](\A w \in Workers :
              (request[w] # NoRequest) =>
                  (conn[w].buffered >= conn[w].declared \/ conn[w].short))
    /\ [](\A w \in Workers :
              AwaitingBody(w) =>
                  /\ ~ENABLED MakeRequest(w)
                  /\ ~ENABLED WorkerStep(w)
                  /\ ENABLED (\E n \in 0..MaxLength : RecvBody(w, n)))
    /\ [](\A w \in Workers :
              (conn[w].short /\ pc[w] = "done" /\ err[w] = NoError) =>
                  /\ Happened(w, "dispatch")
                  /\ Happened(w, "sendall") /\ Len(sent[w]) = 1)
    /\ [][ \A w \in Workers :
               (pc[w] = "body" /\ pc'[w] # "body") =>
                   (pc'[w] = "push_app" /\ err'[w] = NoError) ]_vars

\* the peer closed before the declared body was there, and the connection
\* was answered
C27_Witness ==
    \E w \in Workers :
        /\ conn[w].short /\ conn[w].buffered < conn[w].declared
        /\ pc[w] = "done"
        /\ Len(sent[w]) = 1

\* the declared body came in more than one recv call
C27_WitnessFull ==
    \E w \in Workers :
        /\ ~conn[w].short /\ conn[w].declared = MaxLength
        /\ conn[w].buffered >= conn[w].declared
        /\ Happened(w, "dispatch")

\* what the client does on the connection: it sends bytes or closes
ClientStep(w) ==
    \/ \E chunk \in HeaderChunks : RecvHeader(w, chunk)
    \/ \E n \in 0..MaxLength : RecvBody(w, n)

\* The receive specification under fair scheduling of the worker thread, and
\* with a client that goes on sending or closes
SpecBodyFair ==
    /\ SpecBody
    /\ WF_vars(MakeRequest(FirstWorker))
    /\ WF_vars(WorkerStep(FirstWorker))
    /\ WF_vars(ClientStep(FirstWorker))

\* worker w waits in recv for its client
Blocked(w) == pc[w] = "recv" \/ AwaitingBody(w)

\* C28: a worker whose client delivers the header block and the declared
\* body, or closes, and whose view returns, closes its client socket and
\* ends; a worker waiting in recv can take no step of its own, neither a
\* timeout nor a cancellation, so it waits as long as its client is silent.
C28_WorkerEndsIfClientActs ==
    /\ \A w \in Workers : (pc[w] = "recv") ~> (pc[w] = "done" /\ closed[w] = 1)
    /\ [](\A w \in Workers :
              Blocked(w) => /\ ~ENABLED WorkerStep(w)
                            /\ ~ENABLED MakeRequest(w)
                            /\ ENABLED ClientStep(w))

\* the worker has ended after a body that came in several recv calls
C28_Witness ==
    \E w \in Workers :
        /\ pc[w] = "done" /\ closed[w] = 1
        /\ conn[w].head >= 1
        /\ conn[w].declared = MaxLength /\ conn[w].buffered >= conn[w].declared

\* the worker waits for body bytes
C28_WitnessBlocked ==
    \E w \in Workers : AwaitingBody(w) /\ conn[w].buffered >= 1

\* RequestContext.__init__ keeps the request it is given, and handle_client
\* gives it the Request made from the connection's bytes
RequestOf(c) == request[c.unit]

\* the proxy of the given name
ProxyNamed(name) == CHOOSE p \in Proxies : p.name = name

\* what the proxy resolves to on worker w
Current(w, name) ==
    GetCurrentObject(CvOf(ProxyNamed(name).kind), w, ProxyNamed(name))

\* worker w is between the call of dispatch_request and the end of
\* send_response
InTryBody(w) == pc[w] \in {"dispatch", "log", "send"}

\* C29: while a worker is in dispatch_request, log_request or send_response,
\* request resolves on that worker to the Request made from its connection
\* and current_app to the serving application's context, and the bindings
\* and the Request are the same from before the dispatch until the response
\* is written.
C29_BoundThroughDispatch ==
    /\ [](\A w \in Workers :
              InTryBody(w) =>
                  /\ Current(w, "request").ok
                  /\ Current(w, "request").ctx = WorkerCtx(w)
                  /\ RequestOf(Current(w, "request").ctx) = request[w]
                  /\ Current(w, "current_app").ok
                  /\ Current(w, "current_app").ctx = WorkerCtx(w)
                  /\ Current(w, "current_app").attr = "app")
    /\ [][\A w \in Workers :
              InTryBody(w) =>
                  /\ cv_app'[w] = cv_app[w]
                  /\ cv_request'[w] = cv_request[w]
                  /\ request'[w] = request[w]]_vars

\* one worker has just written its response, its contexts still pushed,
\* while another, serving a different request, is in dispatch_request
C29_Witness ==
    \E w, v \in Workers :
        /\ pc[w] = "pop_req" /\ sent[w] # <<>>
        /\ pc[v] = "dispatch"
        /\ request[w] # request[v]
        /\ cv_request[w] = WorkerCtx(w)
        /\ cv_request[v] = WorkerCtx(v)

\* the proxies that read the context variable of a kind
ProxiesOf(kind) == { p \in Proxies : p.kind = kind }

\* C30: the application stack and the request stack of a unit are
\* independent: a push or pop of a request context leaves what current_app
\* and g resolve to, and the application side's tokens, as they were; a push
\* or pop of an application context leaves request and session as they were.
C30_StacksIndependent ==
    [][/\ (req_tokens' # req_tokens \/ cv_request' # cv_request) =>
              /\ app_tokens' = app_tokens
              /\ \A u \in Units : \A p \in ProxiesOf("app") :
                     GetCurrentObject(cv_app', u, p) = GetCurrentObject(cv_app, u, p)
       /\ (app_tokens' # app_tokens \/ cv_app' # cv_app) =>
              /\ req_tokens' = req_tokens
              /\ \A u \in Units : \A p \in ProxiesOf("request") :
                     GetCurrentObject(cv_request', u, p) = GetCurrentObject(cv_request, u, p)]_vars

\* a unit has pushed an application context and, on top of it, two request
\* contexts, and popped one of them
C30_Witness ==
    \E u \in Units :
        /\ cv_app[u] # Missing
        /\ Len(nest["app"][u]) = 1
        /\ Len(nest["request"][u]) = 1
        /\ deep["request"][u] = 2
        /\ cv_request[u] # cv_app[u]

\* a unit has pushed and popped an application context under a request
\* context that is still bound
C30_WitnessAppPopped ==
    \E u \in Units :
        /\ cv_request[u] # Missing
        /\ cv_app[u] = Missing
        /\ deep["app"][u] >= 1
        /\ nest["app"][u] = <<>>

(***************************************************************************)
(* The keyword-argument specification: rules registered with default       *)
(* values, some under the name of their own placeholder                    *)
(***************************************************************************)
\* @app.route("/a", defaults={"x": "d"}) on f,
\* @app.route("/<x>", defaults={"x": "d", "y": "e"}) on f,
\* @app.route("/<int:n>", defaults={"n": 0}) on g, @app.route("/<x>") on g
KwCalls ==
    { [rule |-> <<"/", "a">>, endpoint |-> "", view |-> ViewF,
       hasMethods |-> FALSE, methods |-> <<>>,
       defaults |-> (<<"x">> :> StrV(<<"d">>))],
      [rule |-> <<"/", "<", "x", ">">>, endpoint |-> "", view |-> ViewF,
       hasMethods |-> FALSE, methods |-> <<>>,
       defaults |-> (<<"x">> :> StrV(<<"d">>)) @@ (<<"y">> :> StrV(<<"e">>))],
      [rule |-> <<"/", "<", "i", "n", "t", ":", "n", ">">>, endpoint |-> "", view |-> ViewG,
       hasMethods |-> FALSE, methods |-> <<>>,
       defaults |-> (<<"n">> :> IntV(0))],
      [rule |-> <<"/", "<", "x", ">">>, endpoint |-> "", view |-> ViewG,
       hasMethods |-> FALSE, methods |-> <<>>, defaults |-> EmptyMap] }

\* /a, /b, /1 and /12
KwPaths == { <<"/", "a">>, <<"/", "b">>, <<"/", "1">>, <<"/", "1", "2">> }

KwInputs ==
    [req : [path : KwPaths, method : RequestMethods],
     beh : ViewBehaviours, file : {FALSE}]

KwNext ==
    \/ \E call \in KwCalls : Register(call)
    \/ \E in \in KwInputs : Dispatch(in)
    \/ Return

SpecKw == RouteInit /\ [][KwNext]_vars

\* the rule string declares the int converter for its placeholder
DeclaresInt(string) ==
    Len(string) >= 6 /\ SubSeq(string, 3, 6) = <<"i", "n", "t", ":">>

\* C31: the view reached through a rule without a matcher is called with
\* exactly the rule's defaults; the view reached through a rule with a
\* matcher is called with the defaults and, over them, the captured values
\* under the placeholders' names, each an int for <int:name> and the
\* captured text otherwise.
C31_KwargsAreDefaultsThenCaptured ==
    (last # <<>> /\ last[1].out.calls # <<>>) =>
        LET rule == url_map[last[1].out.rule]
            kw == last[1].out.calls[1].kwargs
            path == last[1].req.path
            seg == SubSeq(path, 2, Len(path))
            names == PlaceholderNames(rule.rule)
        IN  IF ~rule.pattern.compiled
            THEN kw = rule.defaults
            ELSE /\ DOMAIN kw = DOMAIN rule.defaults \cup {names[k] : k \in 1..Len(names)}
                 /\ \A nm \in DOMAIN rule.defaults :
                        (\A k \in 1..Len(names) : names[k] # nm) => kw[nm] = rule.defaults[nm]
                 /\ \A k \in 1..Len(names) :
                        kw[names[k]] = IF DeclaresInt(rule.rule)
                                       THEN IntV(ParseDigits(seg))
                                       ELSE StrV(seg)

\* /12 reached a view through /<int:n>, registered with the default n = 0
C31_Witness ==
    /\ last # <<>>
    /\ last[1].out.calls # <<>>
    /\ url_map[last[1].out.rule].rule = <<"/", "<", "i", "n", "t", ":", "n", ">">>
    /\ last[1].out.calls[1].kwargs = (<<"n">> :> IntV(12))

\* /b reached f through /<x>, registered with defaults for x and for y
C31_WitnessOverlay ==
    /\ last # <<>>
    /\ last[1].out.calls # <<>>
    /\ last[1].out.calls[1].kwargs = (<<"x">> :> StrV(<<"b">>)) @@ (<<"y">> :> StrV(<<"e">>))

\* /a reached f through the rule /a
C31_WitnessExact ==
    /\ last # <<>>
    /\ last[1].out.calls # <<>>
    /\ ~url_map[last[1].out.rule].pattern.compiled
    /\ last[1].out.calls[1].kwargs = (<<"x">> :> StrV(<<"d">>))

\* C32: a call of dispatch_request leaves url_map and view_functions as they
\* were, whatever the request and the outcome: the same rules in the same
\* order, each with the methods, defaults and converters it had, also when
\* a captured value was passed under the name of a default.
C32_DispatchLeavesTables ==
    [][(last = <<>> /\ last' # <<>>) =>
           /\ url_map' = url_map
           /\ view_functions' = view_functions
           /\ \A i \in 1..Len(url_map) :
                  /\ url_map'[i].defaults = url_map[i].defaults
                  /\ url_map'[i].methods = url_map[i].methods
                  /\ url_map'[i].converters = url_map[i].converters]_vars

\* a view was called with a captured x where its rule has the default x
C32_Witness ==
    /\ last # <<>>
    /\ last[1].out.calls # <<>>
    /\ LET rule == url_map[last[1].out.rule]
           kw == last[1].out.calls[1].kwargs
       IN  /\ <<"x">> \in DOMAIN rule.defaults
           /\ kw[<<"x">>] # rule.defaults[<<"x">>]

(***************************************************************************)
(* The status specification: one Response, constructed with a status and   *)
(* then assigned to through status and status_code                         *)
(***************************************************************************)
\* 200, 404 and 299 as an int, HTTPStatus.NOT_FOUND, "200", "404" and "299"
StatusForms ==
    { IntV(200), IntV(404), IntV(299), EnumV(404),
      StrV(<<"2", "0", "0">>), StrV(<<"4", "0", "4">>), StrV(<<"2", "9", "9">>) }

StatusAttrs == {"status", "status_code"}

\* _status and _status_code as _clean_status gave them
StatusPair(cs) ==
    [status |-> [code |-> cs.code, phrase |-> cs.phrase], status_code |-> cs.code]

\* Response("text", status=v); v None stands for default_status
StatusInit ==
    /\ view_rv = <<>>
    /\ \E v \in StatusForms \cup {NoneV} :
          LET cs == CleanStatus(IF v.t = "none" THEN IntV(default_status) ELSE v)
          IN  /\ cs.ok
              /\ made = [ok |-> TRUE, exc |-> "", resp |-> StatusPair(cs)]
    /\ RouteIdle /\ CtxIdle /\ ServerIdle

\* response.status = v or response.status_code = v: both run the setter of
\* status, which assigns the pair only when _clean_status returned
SetStatus(attr, v) ==
    /\ Len(view_rv) < MaxSets
    /\ made.ok
    /\ view_rv' = Append(view_rv, [attr |-> attr, value |-> v])
    /\ LET cs == CleanStatus(v)
       IN  made' = IF cs.ok
                   THEN [ok |-> TRUE, exc |-> "", resp |-> StatusPair(cs)]
                   ELSE [ok |-> FALSE, exc |-> cs.exc, resp |-> made.resp]
    /\ UNCHANGED <<routeVars, ctxVars, serverVars, runVars>>

StatusNext == \E attr \in StatusAttrs, v \in StatusForms : SetStatus(attr, v)

SpecStatus == StatusInit /\ [][StatusNext]_vars

\* C33: after the construction and after every assignment of an int, a status
\* enum or a numeric string to status or status_code, the assignment has not
\* failed, the status text starts with status_code, and the text is the one
\* that every other form of the same code gives.
C33_StatusPairConsistent ==
    /\ made.ok
    /\ made.resp.status.code = made.resp.status_code
    /\ \A v \in StatusForms :
          StatusNumber(v) = made.resp.status_code =>
              /\ CleanStatus(v).ok
              /\ CleanStatus(v).phrase = made.resp.status.phrase

\* the status text starts with the status code, whatever was assigned and
\* whether or not the last assignment failed
StatusStartsWithCode ==
    /\ made.resp.status.code = made.resp.status_code
    /\ (made.ok /\ view_rv # <<>>) =>
           made.resp.status_code = StatusNumber(view_rv[Len(view_rv)].value)

\* status_code = 404 was assigned after status = "200"
StatusStartsWithCode_Witness ==
    /\ Len(view_rv) = 2
    /\ view_rv[1] = [attr |-> "status", value |-> StrV(<<"2", "0", "0">>)]
    /\ view_rv[2] = [attr |-> "status_code", value |-> IntV(404)]
    /\ made.ok /\ made.resp.status_code = 404 /\ made.resp.status.phrase = "Phrase"

(***************************************************************************)
(* The wire specification: one Response whose body is replaced with        *)
(* set_data any number of times and which send_response then writes        *)
(***************************************************************************)
\* "", "a", "ab" and a text of one character that UTF-8 encodes in two bytes
Texts == { <<>>, <<"a">>, <<"a", "b">>, <<"e'">> }

\* str.encode(): the bytes of a character
EncodeChar(c) == IF c = "e'" THEN <<"c3", "a9">> ELSE <<c>>

RECURSIVE Encode(_)
Encode(s) == IF s = <<>> THEN <<>> ELSE EncodeChar(s[1]) \o Encode(Tail(s))

\* what set_data is given: a str, or bytes
DataValues ==
    { [t |-> "str", s |-> x] : x \in Texts } \cup { [t |-> "bytes", s |-> Encode(x)] : x \in Texts }

\* Headers.__setitem__: the name is stored in lower case, and the value
\* replaces the one the name had
SetHeader(headers, name, value) ==
    IF \E k \in 1..Len(headers) : headers[k].name = name
    THEN [k \in 1..Len(headers) |->
             IF headers[k].name = name THEN [name |-> name, value |-> value]
             ELSE headers[k]]
    ELSE Append(headers, [name |-> name, value |-> value])

\* Response(text): the default content type, and the text encoded
TextResponse(text) ==
    [status |-> StatusPair(CleanStatus(IntV(default_status))).status,
     headers |-> SetHeader(<<>>, "content-type", TextHtml),
     data |-> Encode(text)]

\* Response.set_data: the body, and a Content-Length header of len(value)
SetData(resp, value) ==
    [resp EXCEPT !.data = IF value.t = "str" THEN Encode(value.s) ELSE value.s,
                 !.headers = SetHeader(@, "content-length", Len(value.s))]

\* the bytes send_response hands to sendall: the status line, a line for
\* every header of the response, the Content-Length line, the empty line
\* and the body
FullResponse(resp) ==
    [status_line |-> resp.status,
     lines |-> Append(resp.headers, [name |-> "Content-Length", value |-> Len(resp.data)]),
     body |-> resp.data]

WireInit ==
    /\ view_rv = <<>>
    /\ \E text \in Texts : made = [resp |-> TextResponse(text), wire |-> <<>>]
    /\ RouteIdle /\ CtxIdle /\ ServerIdle

\* the view calls response.set_data(value)
CallSetData(value) ==
    /\ made.wire = <<>>
    /\ Len(view_rv) < MaxSets
    /\ view_rv' = Append(view_rv, value)
    /\ made' = [made EXCEPT !.resp = SetData(@, value)]
    /\ UNCHANGED <<routeVars, ctxVars, serverVars, runVars>>

\* self.send_response(client, response)
Send ==
    /\ made.wire = <<>>
    /\ made' = [made EXCEPT !.wire = <<FullResponse(made.resp)>>]
    /\ UNCHANGED <<view_rv, routeVars, ctxVars, serverVars, runVars>>

WireNext ==
    \/ \E value \in DataValues : CallSetData(value)
    \/ Send

SpecWire == WireInit /\ [][WireNext]_vars

\* the header name without regard to case
LowerName(name) == IF name = "Content-Length" THEN "content-length" ELSE name

\* the Content-Length lines of a written message
ContentLengthLines(wire) ==
    { k \in 1..Len(wire.lines) : LowerName(wire.lines[k].name) = "content-length" }

\* C34: the message send_response writes is the status line, the headers of
\* the response, a Content-Length header, the empty line and the body; it
\* has exactly one Content-Length header, and that header gives the number
\* of body bytes, also when set_data replaced the body before.
C34_OneContentLength ==
    made.wire # <<>> =>
        LET wire == made.wire[1]
        IN  /\ wire.status_line = made.resp.status
            /\ wire.body = made.resp.data
            /\ Cardinality(ContentLengthLines(wire)) = 1
            /\ \A k \in ContentLengthLines(wire) : wire.lines[k].value = Len(wire.body)

\* the last header line of the message is the computed Content-Length, and
\* it gives the number of body bytes written
ComputedLengthIsBodyLength ==
    made.wire # <<>> =>
        LET wire == made.wire[1]
            n == Len(wire.lines)
        IN  /\ wire.body = made.resp.data
            /\ SubSeq(wire.lines, 1, n - 1) = made.resp.headers
            /\ wire.lines[n] = [name |-> "Content-Length", value |-> Len(wire.body)]

\* a response was written whose body set_data had replaced by two bytes
ComputedLengthIsBodyLength_Witness ==
    /\ made.wire # <<>>
    /\ view_rv # <<>>
    /\ Len(made.wire[1].body) = 2

(***************************************************************************)
(* The debug specification: two servers that differ in the debug flag      *)
(* only, each serving one connection                                       *)
(***************************************************************************)
\* the connection served with DEBUG off and the one served with DEBUG on
Plain1 == FirstWorker

Debug2 == FirstWorker + 1

\* run(debug=...): self.debug = bool(debug) sets config["DEBUG"]
DebugInit ==
    /\ ServerBoot
    /\ config = [w \in Workers |-> w = Debug2]

DebugNext ==
    \/ \E w \in {Plain1, Debug2} : Accept(w)
    \/ \E w \in {Plain1, Debug2}, msg \in RunMessages : Receive(w, msg)
    \/ \E w \in {Plain1, Debug2} : WorkerStep(w)

SpecDebug == DebugInit /\ [][DebugNext]_vars

\* the two connections got the same bytes, and the view did the same on both
SameInput(w, v) ==
    /\ request[w] = request[v]
    /\ Happened(w, "eof") = Happened(v, "eof")
    /\ response[w] = response[v]
    /\ err[w] = err[v]

\* C35: a connection served with DEBUG on and one served with DEBUG off that
\* got the same bytes have, when both are done, the same bytes written to
\* the client and the same steps up to the close, also when the view
\* raised; only what is printed differs.
C35_DebugHasNoProtocolEffect ==
    \A w, v \in Workers :
        (config[w] # config[v] /\ pc[w] = "done" /\ pc[v] = "done" /\ SameInput(w, v)) =>
            /\ sent[w] = sent[v]
            /\ closed[w] = closed[v]
            /\ events[w] = events[v]

\* the view raised on both connections: nothing was written on either, and
\* only the one with DEBUG on printed the traceback
C35_Witness ==
    /\ pc[Plain1] = "done" /\ pc[Debug2] = "done"
    /\ SameInput(Plain1, Debug2)
    /\ err[Plain1].from = "view"
    /\ console[Plain1] = <<"Internal Server Error">>
    /\ console[Debug2] = <<"Internal Server Error", "traceback">>
    /\ sent[Plain1] = <<>> /\ sent[Debug2] = <<>>

\* C36: on a unit, whenever every push of a kind has been matched by a pop of
\* the same context, in whatever order the pops came, the context variable
\* of that kind is unbound as before the first push, and no context that
\* was popped is current.
C36_MatchedPopsRestore ==
    \A kind \in Kinds, u \in Units :
        Outstanding(kind, u) = {} =>
            /\ CvOf(kind)[u] = Missing
            /\ \A p \in ProxiesOf(kind) : ~GetCurrentObject(CvOf(kind), u, p).ok

(***************************************************************************)
(* The alias specification: registrations of different functions that      *)
(* resolve to one endpoint name                                            *)
(***************************************************************************)
\* another function whose __name__ is f
ViewF2 == [id |-> 3, name |-> "f"]

\* @app.route("/a") on f, @app.route("/b", endpoint="f") on g, and
\* @app.route("/c") on the second function named f
AliasCalls ==
    { [rule |-> <<"/", "a">>, endpoint |-> "", view |-> ViewF,
       hasMethods |-> FALSE, methods |-> <<>>, defaults |-> EmptyMap],
      [rule |-> <<"/", "b">>, endpoint |-> "f", view |-> ViewG,
       hasMethods |-> FALSE, methods |-> <<>>, defaults |-> EmptyMap],
      [rule |-> <<"/", "c">>, endpoint |-> "", view |-> ViewF2,
       hasMethods |-> FALSE, methods |-> <<>>, defaults |-> EmptyMap] }

AliasInputs ==
    [req : [path : { <<"/", "a">>, <<"/", "b">>, <<"/", "c">> }, method : RequestMethods],
     beh : ViewBehaviours, file : {FALSE}]

AliasNext ==
    \/ \E call \in AliasCalls : Register(call)
    \/ \E in \in AliasInputs : Dispatch(in)
    \/ Return

SpecAlias == RouteInit /\ [][AliasNext]_vars

\* the function given in the registration call that made a rule of this
\* string: each rule string is registered by one call here
SuppliedWith(string) == (CHOOSE call \in AliasCalls : call.rule = string).view

\* C37: a request resolved with a rule calls the function that was supplied
\* in the registration call that made the rule, whatever was registered
\* after it, also another function under the same endpoint name.
C37_CallsTheRegisteredHandler ==
    (last # <<>> /\ last[1].out.calls # <<>>) =>
        last[1].out.calls[1].view = SuppliedWith(url_map[last[1].out.rule].rule)

\* what dispatch_request calls is the function of the last registration
\* under the rule's endpoint name
CallsTheLastOfTheEndpoint ==
    (last # <<>> /\ last[1].out.calls # <<>>) =>
        LET ep == url_map[last[1].out.rule].endpoint
            same == { i \in 1..Len(url_map) : url_map[i].endpoint = ep }
        IN  last[1].out.calls[1].view = SuppliedWith(url_map[LastOf(same)].rule)

\* /a, registered with f, was requested after /b had been registered with g
\* under the endpoint f
CallsTheLastOfTheEndpoint_Witness ==
    /\ last # <<>>
    /\ last[1].out.calls # <<>>
    /\ last[1].req.path = <<"/", "a">>
    /\ last[1].out.calls[1].view = ViewG

\* C38: one call of dispatch_request calls at most one view and calls it at
\* most once; it calls none when it gives the static-file result, a 404 or a
\* 405; and once it has a rule to resolve the request with, the rules after
\* that one play no part in what it does.
C38_AtMostOneHandler ==
    last # <<>> =>
        LET d == last[1]
        IN  /\ Len(d.out.calls) <= 1
            /\ d.out.via \in {"static", "404", "405"} => d.out.calls = <<>>
            /\ d.out.calls # <<>> =>
                   /\ d.out.rule # 0
                   /\ d.out.via \in {"view", "abort", "make_response"}
            /\ d.out.rule # 0 =>
                   d.out = DispatchRequest(SubSeq(url_map, 1, d.out.rule), view_functions,
                                           d.req, d.beh, d.env)

\* the view of the first of two rules that match the path aborted
C38_Witness ==
    /\ last # <<>>
    /\ Len(last[1].out.calls) = 1
    /\ last[1].out.via = "abort"
    /\ last[1].out.rule < Len(url_map)
    /\ RuleMatches(url_map[Len(url_map)], last[1].req)

\* a number with too many digits gave the 404 of the converter, and no view
\* was called
C38_WitnessConverter ==
    /\ last # <<>>
    /\ last[1].out.rule # 0
    /\ last[1].out.via = "404"
    /\ last[1].out.calls = <<>>

====
